---------------------------- MODULE Spec2Model ----------------------------
(***************************************************************************)
(* Model of the real-time voice session of tmdb_agent:                     *)
(*   src/tmdb_agent/langchain_openai_voice/__init__.py                     *)
(* One session = one call of OpenAIVoiceReactAgent.aconnect.  The tasks of *)
(* the asyncio loop are: the orchestrator (aconnect's `async for` body     *)
(* together with the merger it pulls from), one next-item task per merged  *)
(* source (client input, model stream, VoiceToolExecutor.output_iterator), *)
(* one run_tool task per validated tool call and one delayed_wait_hint     *)
(* task per run_tool.  An action is one atomic block of one task, from the *)
(* await it resumes from to the await it suspends in.                      *)
(***************************************************************************)
EXTENDS Integers, Sequences, FiniteSets

\* ------------------------------------------------------------ bounds
\* function_call_arguments.done events the model service may emit
MaxCalls == 2
\* events the client may put on the input stream
MaxInputs == 1
\* model events that are no function call
MaxOther == 1
\* events the model service may emit in one session, of either sort
MaxModelEvents == 2

\* items one source of the merger may produce when the merger runs alone
MaxItems == 2

\* sessions that use the caches at the same time
MaxSessions == 2
\* search-tool invocations, over all sessions
MaxToolCalls == 3

Calls == 1..MaxCalls
Sessions == 1..MaxSessions

\* longest text handed to normalize_text
MaxTextLen == 3

\* adds to the semantic cache, over all sessions
MaxAdds == 2
\* seconds the clock may show
MaxTime == 2
\* calls of send_output_chunk per caller
MaxChunks == 2
\* the largest window_size a chat history is made with
MaxWindow == 2
\* add_message calls on one chat history
MaxMsgs == 4

\* keys and values of the exact cache; Absent is Python's None
CacheKeys == {"k1", "k2"}
\* the empty list of checked videos
EmptyList == "empty"
CacheValues == {"v1", "v2", EmptyList}
Absent == "absent"
NoResponse == [kind |-> "none", of |-> Absent]

\* semantic cache: param_hash values of the metadata, stored values, ttl
\* values, and the document ids f"{param_hash}_{now}"
ParamHashes == {"h1", "h2"}
SemValues == {"v1", "v2"}
TTLs == {0, 3600}
Times == 1..MaxTime
DocIds == ParamHashes \X Times
NoAdd == [id |-> <<"-", 0>>, query |-> <<>>, value |-> Absent]
NoSearch == [op |-> "none", query |-> <<>>, param_hash |-> "-", now |-> 0,
             value |-> Absent, hit |-> FALSE, score |-> 0]

VARIABLES
  pc,        \* position of the orchestrator task
  cur,       \* the merged event the orchestrator is handling
  endCause,  \* why aconnect returned or raised
  chan,      \* the websocket to the model service
  slot,      \* per merged source: state of its next-item task
  item,      \* per merged source: the item its next-item task returned
  arrived,   \* merged sources whose next-item task completed, in order
  nIn,       \* input events produced so far
  nCalls,    \* function calls emitted by the model so far
  nOther,    \* other model events emitted so far
  callKind,  \* per call: what is wrong with it, if anything
  trigger,   \* _trigger_future: 0 while not done, else the call it holds
  itpc,      \* position of output_iterator
  batch,     \* output_iterator's `done` tasks not yet looped over
  tasks,     \* output_iterator's `tasks`: run_tool tasks not yet collected
  task,      \* per call: state of its run_tool task
  timer,     \* per call: state of its delayed_wait_hint task
  sent,      \* messages sent on the model channel, in order
  notified,  \* per call: processing-started notifications sent to the client
  hinted,    \* per call: wait-hint assets sent to the client
  result,    \* per call: what tool.ainvoke returned
  direct,    \* per call: output strings sent to the client directly
  directErr, \* calls whose direct delivery raised in send_output_chunk
  fwd,       \* client chunks made from model events, in order
  accepted,  \* calls for which add_tool_call returned normally
  busyAdd,   \* calls submitted while an earlier call was unresolved
  taken,     \* calls output_iterator took out of the trigger
  outs,      \* per call: call-output events output_iterator yielded
  nTurnEv,   \* merged events taken so far that call for a turn request
  hintAsset, \* _tool_wait_hint_audio_b64 holds the asset (None if loading failed)
  produced,  \* merger alone: per source, the items it has produced
  merged,    \* merger alone: the (label, item) pairs the merge yielded
  db,        \* exact cache: the SqliteDict table shared by every session
  setLog,    \* exact cache: the sets carried out, (session, key, value), in order
  tpc,       \* per session: position of its search-tool invocation
  tkey,      \* per session: cache_key of its invocation
  resp,      \* per session: what the invocation returned
  reads,     \* per session: cache gets issued by its invocation
  writes,    \* per session: cache sets issued by its invocation
  wkey,      \* per session: the key its invocation set
  lookups,   \* per session: live lookups started by its invocation
  got,       \* per session: what the cache get of its invocation returned
  fault,     \* per session: the cache operation of its invocation that raised
  nTool,     \* search-tool invocations started so far
  normIn,    \* normalize_text: the two texts handed to it, <<>> before
  normOut,   \* normalize_text: what it returned for each
  coll,      \* semantic cache: the records of the Chroma collection, in order
  files,     \* semantic cache: per document id, the content of its value file
  clock,     \* int(time.time())
  adding,    \* per session: the add that has indexed and not yet written
  added,     \* semantic cache: text and value of the add that returned last
  srch,      \* semantic cache: the last search and what it returned
  nAdds,     \* adds started so far
  hpc,       \* position of websocket_endpoint
  clients,   \* the client's websocket is in connected_clients
  recv,      \* state of receive_task
  botCancel, \* cinebot_task.cancel() was called
  hexit,     \* how websocket_endpoint left its try block
  sock,      \* client_state of the client websocket, as the server sees it
  cpc,       \* per caller of send_output_chunk: where it is
  carg,      \* per caller: the chunk of its call in progress
  cdone,     \* per caller: calls of send_output_chunk that returned
  outcomes,  \* what each call of send_output_chunk did, in order of return
  window_size, \* WindowedChatHistory.window_size, NoWindow before __init__
  messages,  \* WindowedChatHistory.messages
  appended,  \* ghost: every message added since the last clear, in order
  nMsgs      \* add_message calls so far

vars == <<pc, cur, endCause, chan, slot, item, arrived, nIn, nCalls, nOther,
          callKind, trigger, itpc, batch, tasks, task, timer, sent, notified,
          hinted, result, direct, directErr, fwd,
          accepted, busyAdd, taken, outs, nTurnEv, hintAsset, produced,
          merged, db, setLog, tpc, tkey, resp, reads, writes, wkey, lookups,
          got, fault, nTool, normIn, normOut, coll, files, clock, adding,
          added, srch, nAdds, hpc, clients, recv, botCancel, hexit,
          sock, cpc, carg, cdone, outcomes,
          window_size, messages, appended, nMsgs>>

envVars  == <<nIn, nCalls, nOther, callKind>>
execVars == <<trigger, itpc, batch, tasks, accepted, busyAdd, taken, outs>>
toolVars == <<task, timer, result>>
chunks   == <<notified, hinted, direct, directErr, fwd>>
mainVars == <<pc, cur, endCause, nTurnEv>>
\* the exact cache and the search-tool invocations that use it
exactVars == <<db, setLog, tpc, tkey, resp, reads, writes, wkey, lookups, got,
               fault, nTool>>
\* the texts normalize_text is applied to
normVars == <<normIn, normOut>>
\* what a session leaves alone: the records of the merger running alone and
\* the caches
\* the semantic cache
semVars == <<coll, files, clock, adding, added, srch, nAdds>>
\* the connection handler of the server
srvVars == <<hpc, clients, recv, botCancel, hexit>>
chunkVars == <<sock, cpc, carg, cdone, outcomes>>
histVars == <<window_size, messages, appended, nMsgs>>
offSession == <<produced, merged, exactVars, normVars, semVars, srvVars,
               chunkVars,
               histVars>>

\* ------------------------------------------------------------ data
\* window_size before the history is constructed
NoWindow == -1

\* send_output_chunk is awaited by aconnect's loop body and by run_tool tasks
Callers == {"loop", "tool"}

\* a chunk json.loads accepts, one it rejects, one that is only white space
ChunkKinds == {"json", "text", "blank"}

Keys == {"input_mic", "output_speaker", "tool_outputs"}

NoItem == [kind |-> "none", role |-> "none", ctype |-> "none", id |-> 0]

\* a structured client message: conversation.item.create with one content
InputMsg(role, ctype, n) ==
  [kind |-> "msg", role |-> role, ctype |-> ctype, id |-> n]

\* what the client may send: user text, system text, user audio
InputShapes ==
  { <<"user", "input_text">>, <<"system", "input_text">>,
    <<"user", "input_audio">> }

\* a payload that is no structured message: text json.loads rejects, such as
\* a sentence, and text json.loads accepts, such as the digits of a year
PlainTexts == {"words", "number"}

PlainText(t, n) == [kind |-> "text", role |-> "-", ctype |-> t, id |-> n]

Event(k, d) == [key |-> k, data |-> d]

\* one message on the model channel or one client chunk; src and id name the
\* merged event (or the call) it was sent for, v is the role or the variant
Msg(t, src, n, v) == [t |-> t, src |-> src, id |-> n, v |-> v]

Count(log, t) == Cardinality({i \in DOMAIN log : log[i].t = t})


\* ------------------------------------------------------------ orchestrator
\* is_input_text, nested in aconnect
is_input_text(role, data) ==
  /\ role \in {"user", "assistant", "system"}
  /\ data.kind = "msg"
  /\ data.role = role
  /\ data.ctype = "input_text"

\* the item made of a plain text
text_to_realtime_api_json_as_role(role, raw) == InputMsg(role, "input_text", raw.id)

\* json.loads of a str payload; JSONDecodeError makes it a user text item.
\* Text that is valid JSON decodes to the value it denotes.
Decode(raw) ==
  IF raw.kind # "text" THEN raw
  ELSE IF raw.ctype = "words"
       THEN text_to_realtime_api_json_as_role("user", raw)
       ELSE [kind |-> "scalar", role |-> "-", ctype |-> "-", id |-> raw.id]

\* `"item" in data` raises TypeError for a number
InputCrashes(data) == data.kind = "scalar"

\* the re-labelling of a text input before the dispatch
StreamKey(key, data) ==
  IF key = "input_mic" /\ (is_input_text("user", data) \/ is_input_text("system", data))
  THEN "input_text"
  ELSE key

\* the guard of the response.create that follows a text input
NeedsTurnRequestAlways(data) == TRUE
NeedsTurnRequest(data) == is_input_text("user", data)

\* the first message the input_text branch sends
TextFirstSendSwapped(ev) == Msg("response.create", ev.key, ev.data.id, "-")
TextFirstSend(ev) == Msg("conversation.item.create", ev.key, ev.data.id, ev.data.role)

\* ghost: a merged event that by its shape calls for a new turn
TurnEvent(key, data) ==
  \/ key = "tool_outputs"
  \/ key = "input_mic" /\ data.kind = "msg" /\ data.role = "user"
                       /\ data.ctype = "input_text"

Live == pc \notin {"init", "ended"}

\* aconnect returns or raises: connect's finally closes the websocket
EndLeavesOpen(cause) ==
  /\ pc' = "ended"
  /\ endCause' = cause
  /\ chan' = chan

End(cause) ==
  /\ pc' = "ended"
  /\ endCause' = cause
  /\ chan' = "closed"

\* model_send on an open channel
ModelSend(m) ==
  /\ chan = "open"
  /\ sent' = Append(sent, m)
  /\ chan' = chan

\* model_send raises out of aconnect: the websocket is closed, or the send
\* is what finds the connection dropped
SendFails ==
  /\ End("send_failed")
  /\ UNCHANGED sent

\* session.update, then the merger creates one next-item task per source
StartUnconfigured ==
  /\ pc = "init"
  /\ pc' = "wait"
  /\ slot' = [k \in Keys |-> "pending"]
  /\ UNCHANGED <<endCause, chan, sent>>
  /\ UNCHANGED <<cur, nTurnEv, item, arrived, chunks>>
  /\ UNCHANGED <<envVars, execVars, toolVars>>
  /\ UNCHANGED <<hintAsset, offSession>>

Start ==
  /\ pc = "init"
  /\ \/ /\ ModelSend(Msg("session.update", "-", 0, "-"))
        /\ pc' = "wait"
        /\ slot' = [k \in Keys |-> "pending"]
        /\ UNCHANGED endCause
     \/ /\ SendFails
        /\ UNCHANGED slot
  /\ UNCHANGED <<cur, nTurnEv, item, arrived, chunks>>
  /\ UNCHANGED <<envVars, execVars, toolVars>>
  /\ UNCHANGED <<hintAsset, offSession>>

Ready(k) ==
  /\ pc = "wait"
  /\ arrived # <<>>
  /\ Head(arrived) = k
  /\ slot[k] = "ready"

\* the merger yields (k, item[k]) and the loop body runs to its first await
Take(k) ==
  /\ arrived' = Tail(arrived)
  /\ nTurnEv' = IF TurnEvent(k, Decode(item[k])) THEN nTurnEv + 1 ELSE nTurnEv
  /\ item' = [item EXCEPT ![k] = NoItem]

\* stream_key == "input_mic": forward the event
TakeInputMic ==
  /\ Ready("input_mic")
  /\ ~InputCrashes(Decode(item["input_mic"]))
  /\ StreamKey("input_mic", Decode(item["input_mic"])) = "input_mic"
  /\ Take("input_mic")
  /\ cur' = Event("input_mic", Decode(item["input_mic"]))
  /\ slot' = [slot EXCEPT !["input_mic"] = "consumed"]
  /\ \/ /\ ModelSend(Msg("conversation.item.create", "input_mic",
                         item["input_mic"].id, Decode(item["input_mic"]).role))
        /\ pc' = "resume"
        /\ UNCHANGED endCause
     \/ SendFails
  /\ UNCHANGED <<chunks, envVars, execVars, toolVars>>
  /\ UNCHANGED <<hintAsset, offSession>>

\* stream_key == "input_text": forward the item, then sleep 0.1 s
TakeInputText ==
  /\ Ready("input_mic")
  /\ ~InputCrashes(Decode(item["input_mic"]))
  /\ StreamKey("input_mic", Decode(item["input_mic"])) = "input_text"
  /\ Take("input_mic")
  /\ cur' = Event("input_mic", Decode(item["input_mic"]))
  /\ slot' = [slot EXCEPT !["input_mic"] = "consumed"]
  /\ \/ /\ ModelSend(TextFirstSend(Event("input_mic", Decode(item["input_mic"]))))
        /\ pc' = "text_sleep"
        /\ UNCHANGED endCause
     \/ SendFails
  /\ UNCHANGED <<chunks, envVars, execVars, toolVars>>
  /\ UNCHANGED <<hintAsset, offSession>>

\* a payload that decodes to a number: is_input_text raises out of aconnect
TakeInputScalar ==
  /\ Ready("input_mic")
  /\ InputCrashes(Decode(item["input_mic"]))
  /\ Take("input_mic")
  /\ cur' = Event("input_mic", Decode(item["input_mic"]))
  /\ slot' = [slot EXCEPT !["input_mic"] = "consumed"]
  /\ End("input_raised")
  /\ UNCHANGED <<sent, chunks, envVars, execVars, toolVars>>
  /\ UNCHANGED <<hintAsset, offSession>>

\* the sleep is over: response.create for a user message, nothing for system
TextWake ==
  /\ pc = "text_sleep"
  /\ \/ /\ NeedsTurnRequest(cur.data)
        /\ \/ /\ ModelSend(Msg("response.create", cur.key, cur.data.id, "-"))
              /\ pc' = "resume"
              /\ UNCHANGED endCause
           \/ SendFails
     \/ /\ ~NeedsTurnRequest(cur.data)
        /\ pc' = "resume"
        /\ UNCHANGED <<endCause, chan, sent>>
  /\ UNCHANGED <<cur, nTurnEv, slot, item, arrived, chunks>>
  /\ UNCHANGED <<envVars, execVars, toolVars>>
  /\ UNCHANGED <<hintAsset, offSession>>

\* stream_key == "tool_outputs": the call output goes to the model
TakeToolOutput ==
  /\ Ready("tool_outputs")
  /\ Take("tool_outputs")
  /\ cur' = Event("tool_outputs", item["tool_outputs"])
  /\ slot' = [slot EXCEPT !["tool_outputs"] = "consumed"]
  /\ \/ /\ ModelSend(Msg("function_call_output", "tool_outputs",
                         item["tool_outputs"].id, item["tool_outputs"].kind))
        /\ pc' = "out_resp"
        /\ UNCHANGED endCause
     \/ SendFails
  /\ UNCHANGED <<chunks, envVars, execVars, toolVars>>
  /\ UNCHANGED <<hintAsset, offSession>>

\* what a tool may return: a dict flagged return_direct, a dict without the
\* flag, a value json.dumps rejects
Results == {"direct", "plain", "unserializable"}

\* run_tool: json.dumps(result), or str(result) after a TypeError
Serialize(r) ==
  IF r = "unserializable" THEN [val |-> r, enc |-> "str"]
  ELSE [val |-> r, enc |-> "json_ascii"]

\* data["item"]["output"] of a call-output event: run_tool's serialisation, or
\* the "Error: ..." text of a validation failure
OutputStr(data) ==
  IF data.kind = "error" THEN [val |-> "error", enc |-> "str"]
  ELSE Serialize(result[data.id])

\* json.loads(output_str) gives a dict whose return_direct is truthy; any
\* exception of the parse is swallowed
ReturnDirect(data) ==
  /\ OutputStr(data).enc \in {"json_ascii", "json_utf8"}
  /\ OutputStr(data).val = "direct"

\* what goes to send_output_chunk for a direct delivery
DirectChunkRedumped(data) == [val |-> OutputStr(data).val, enc |-> "json_utf8"]
DirectChunk(data) == OutputStr(data)

OutRespSkipped ==
  /\ pc = "out_resp"
  /\ pc' = "resume"
  /\ UNCHANGED <<hintAsset, offSession>>
  /\ UNCHANGED <<cur, endCause, nTurnEv, chan, slot, item, arrived, sent, chunks>>
  /\ UNCHANGED <<envVars, execVars, toolVars>>

\* then one response.create
OutResp ==
  /\ pc = "out_resp"
  /\ \/ /\ ModelSend(Msg("response.create", cur.key, cur.data.id, "-"))
        /\ pc' = IF ReturnDirect(cur.data) THEN "out_direct" ELSE "resume"
        /\ UNCHANGED endCause
     \/ SendFails
  /\ UNCHANGED <<cur, nTurnEv, slot, item, arrived, chunks>>
  /\ UNCHANGED <<envVars, execVars, toolVars>>
  /\ UNCHANGED <<hintAsset, offSession>>

\* send_output_chunk returns, or raises an Exception that the except clause
\* of the direct delivery logs
DirectOutcomeUncaught ==
  \/ /\ pc' = "resume"
     /\ UNCHANGED <<directErr, endCause, chan>>
  \/ /\ directErr' = directErr \cup {cur.data.id}
     /\ End("direct_raised")

DirectOutcome ==
  /\ pc' = "resume"
  /\ \/ directErr' = directErr
     \/ directErr' = directErr \cup {cur.data.id}
  /\ UNCHANGED <<endCause, chan>>

\* return_direct: the output string goes to the client as it is
OutDirect ==
  /\ pc = "out_direct"
  /\ direct' = [direct EXCEPT ![cur.data.id] = Append(@, DirectChunk(cur.data))]
  /\ DirectOutcome
  /\ UNCHANGED <<cur, nTurnEv, slot, item, arrived, sent,
                 notified, hinted, fwd>>
  /\ UNCHANGED <<envVars, execVars, toolVars>>
  /\ UNCHANGED <<hintAsset, offSession>>

\* the loop body is over: the merger asks the source for its next item
Resume ==
  /\ pc = "resume"
  /\ pc' = "wait"
  /\ slot' = [slot EXCEPT ![cur.key] = "pending"]
  /\ cur' = Event("none", NoItem)
  /\ UNCHANGED <<endCause, nTurnEv, chan, item, arrived, sent, chunks>>
  /\ UNCHANGED <<envVars, execVars, toolVars>>
  /\ UNCHANGED <<hintAsset, offSession>>


\* ------------------------------------------------------------ tool executor
\* _trigger_future.done()
SlotBusyNever == FALSE
SlotBusy == trigger # 0

\* ghost: an accepted call whose call-output event has not been produced yet
Unresolved(c) == c \in accepted /\ outs[c] = 0

\* add_tool_call under the lock: raise while the future is done, else fill it
add_tool_call(c) ==
  /\ busyAdd' = IF \E d \in Calls : Unresolved(d)
                THEN busyAdd \cup {c} ELSE busyAdd
  /\ \/ /\ SlotBusy
        /\ End("add_tool_call_raised")
        /\ cur' = Event("output_speaker", item["output_speaker"])
        /\ slot' = [slot EXCEPT !["output_speaker"] = "consumed"]
        /\ UNCHANGED <<trigger, accepted>>
     \/ /\ ~SlotBusy
        /\ trigger' = c
        /\ accepted' = accepted \cup {c}
        /\ pc' = "wait"
        /\ cur' = cur
        /\ slot' = [slot EXCEPT !["output_speaker"] = "pending"]
        /\ UNCHANGED <<endCause, chan>>

EVENTS_TO_IGNORE ==
  { "response.function_call_arguments.delta", "rate_limits.updated",
    "response.audio_transcript.delta", "response.created",
    "response.content_part.added", "response.content_part.done",
    "conversation.item.created", "response.audio.done", "session.created",
    "session.updated", "response.done", "response.output_item.done",
    "response.text.delta", "response.output_item.added" }

\* the if/elif chain on data["type"] of the output_speaker branch
DispatchForwardRest(t) ==
  IF t = "response.function_call_arguments.done" THEN "tool_call"
  ELSE IF t = "response.text.done" THEN "forward_text"
  ELSE "forward_event"

Dispatch(t) ==
  IF t = "response.audio.delta" THEN "forward_event"
  ELSE IF t = "response.audio_buffer.speech_started" THEN "forward_event"
  ELSE IF t = "error" THEN "log"
  ELSE IF t = "response.function_call_arguments.done" THEN "tool_call"
  ELSE IF t = "response.audio_transcript.done" THEN "drop"
  ELSE IF t = "conversation.item.input_audio_transcription.completed" THEN "log"
  ELSE IF t = "response.text.done" THEN "forward_text"
  ELSE IF t \in EVENTS_TO_IGNORE THEN "drop"
  ELSE "warn"

\* the argument of send_output_chunk: json.dumps(data), or data.get("text", "")
ForwardChunkWhole(data) == [enc |-> "json_ascii", part |-> "whole", of |-> data]
ForwardChunk(data) ==
  IF Dispatch(data.ctype) = "forward_text"
  THEN [enc |-> "str", part |-> "text", of |-> data]
  ELSE [enc |-> "json_ascii", part |-> "whole", of |-> data]

\* stream_key == "output_speaker", response.function_call_arguments.done:
\* add_tool_call does not suspend, so the merger is back in its wait at once
TakeFunctionCall ==
  /\ Ready("output_speaker")
  /\ item["output_speaker"].kind = "event"
  /\ Dispatch(item["output_speaker"].ctype) = "tool_call"
  /\ Take("output_speaker")
  /\ add_tool_call(item["output_speaker"].id)
  /\ UNCHANGED <<sent, chunks, envVars, toolVars>>
  /\ UNCHANGED <<itpc, batch, tasks, taken, outs>>
  /\ UNCHANGED <<hintAsset, offSession>>

\* a kind that is dropped: ignored, only logged, or unhandled
TakeIgnored ==
  /\ Ready("output_speaker")
  /\ item["output_speaker"].kind = "event"
  /\ Dispatch(item["output_speaker"].ctype) \in {"drop", "log", "warn"}
  /\ Take("output_speaker")
  /\ pc' = "wait"
  /\ cur' = cur
  /\ slot' = [slot EXCEPT !["output_speaker"] = "pending"]
  /\ UNCHANGED <<endCause, chan, sent, chunks>>
  /\ UNCHANGED <<envVars, execVars, toolVars>>
  /\ UNCHANGED <<hintAsset, offSession>>

\* audio delta, speech started, text done: one chunk to the client
TakeForward ==
  /\ Ready("output_speaker")
  /\ item["output_speaker"].kind = "event"
  /\ Dispatch(item["output_speaker"].ctype) \in {"forward_event", "forward_text"}
  /\ Take("output_speaker")
  /\ fwd' = Append(fwd, ForwardChunk(item["output_speaker"]))
  /\ cur' = Event("output_speaker", item["output_speaker"])
  /\ slot' = [slot EXCEPT !["output_speaker"] = "consumed"]
  /\ pc' = "resume"
  /\ UNCHANGED <<endCause, chan, sent, notified, hinted, direct, directErr>>
  /\ UNCHANGED <<envVars, execVars, toolVars>>
  /\ UNCHANGED <<hintAsset, offSession>>

\* _create_tool_call_task raises ValueError for an unknown tool or for
\* arguments json.loads rejects
ValidCallNoJsonCheck(c) == callKind[c] # "unknown_tool"
ValidCall(c) == callKind[c] = "ok"

\* the tasks asyncio.wait reports done: the trigger task and finished run_tools
DoneNow ==
  (IF trigger # 0 THEN {0} ELSE {}) \cup
  {c \in tasks : task[c] \in {"returned", "raised"}}

\* what is left of the `for task in done` loop, or a fresh wait result
Work == IF batch # {} THEN batch ELSE DoneNow

IterRuns ==
  /\ itpc = "run"
  /\ slot["tool_outputs"] = "pending"
  /\ Work # {}

\* output_iterator yields one call-output event into its next-item task
Yield(kind, c, rest) ==
  /\ item' = [item EXCEPT !["tool_outputs"] =
                [kind |-> kind, role |-> "-", ctype |-> "-", id |-> c]]
  /\ slot' = [slot EXCEPT !["tool_outputs"] = "ready"]
  /\ arrived' = Append(arrived, "tool_outputs")
  /\ outs' = [outs EXCEPT ![c] = @ + 1]
  /\ batch' = rest
  /\ itpc' = itpc

\* the else branch: `yield task.result()`, which re-raises what run_tool raised
Collect(e, tasksBase, rest) ==
  /\ tasks' = tasksBase \ {e}
  /\ \/ /\ task[e] = "returned"
        /\ Yield("result", e, rest)
     \/ /\ task[e] = "raised"
        /\ item' = item
        /\ slot' = [slot EXCEPT !["tool_outputs"] = "raised"]
        /\ arrived' = Append(arrived, "tool_outputs")
        /\ itpc' = "raised"
        /\ batch' = {}
        /\ outs' = outs

\* the trigger task is done: re-arm the future, then create the run_tool task
RearmSkipped ==
  /\ trigger' = trigger
  /\ taken' = taken \cup {trigger}

Rearm ==
  /\ trigger' = 0
  /\ taken' = taken \cup {trigger}

\* a valid call: no yield, the loop goes on with the other done tasks (or waits)
IterTakeValid ==
  /\ IterRuns
  /\ 0 \in Work
  /\ ValidCall(trigger)
  /\ Rearm
  /\ task' = [task EXCEPT ![trigger] = "created"]
  /\ \/ /\ Work = {0}
        /\ tasks' = tasks \cup {trigger}
        /\ batch' = {}
        /\ UNCHANGED <<item, slot, arrived, outs, itpc>>
     \/ \E e \in Work \ {0} : Collect(e, tasks \cup {trigger}, Work \ {0, e})
  /\ UNCHANGED <<mainVars, chan, envVars, timer, result, sent, chunks, accepted,
                 busyAdd>>
  /\ UNCHANGED <<hintAsset, offSession>>

\* a call that fails validation: the ValueError becomes an error output
IterTakeInvalid ==
  /\ IterRuns
  /\ 0 \in Work
  /\ ~ValidCall(trigger)
  /\ Rearm
  /\ Yield("error", trigger, Work \ {0})
  /\ UNCHANGED <<mainVars, chan, envVars, toolVars, tasks, sent, chunks,
                 accepted, busyAdd>>
  /\ UNCHANGED <<hintAsset, offSession>>

\* a finished run_tool task
IterCollect ==
  /\ IterRuns
  /\ \E e \in Work \ {0} : Collect(e, tasks, Work \ {e})
  /\ UNCHANGED <<mainVars, chan, envVars, toolVars, trigger, taken, sent,
                 chunks, accepted, busyAdd>>
  /\ UNCHANGED <<hintAsset, offSession>>


\* ------------------------------------------------------------ run_tool
TimerOver(t) == t \in {"none", "done"}

\* wait_hint_task.cancel(): a request the timer task acts on when it next runs
TimerAfterCancel(t) ==
  IF t = "sleeping" THEN "cancel_sleep"
  ELSE IF t = "sending" THEN "cancel_send"
  ELSE t

\* `await wait_hint_task` suspends run_tool until the timer task is over
MustAwaitHintSkipped(t) == FALSE
MustAwaitHint(t) == ~TimerOver(t)

\* the first block of run_tool: start the timer, send the notification
RunToolStartSilent(c) ==
  /\ task[c] = "created"
  /\ timer' = [timer EXCEPT ![c] = "sleeping"]
  /\ UNCHANGED <<notified, hinted, direct, directErr, fwd, result>>
  /\ task' = [task EXCEPT ![c] = "invoking"]
  /\ UNCHANGED <<mainVars, chan, slot, item, arrived, sent, envVars, execVars>>
  /\ UNCHANGED <<hintAsset, offSession>>

RunToolStart(c) ==
  /\ task[c] = "created"
  /\ timer' = [timer EXCEPT ![c] = "sleeping"]
  /\ notified' = [notified EXCEPT ![c] = @ + 1]
  /\ UNCHANGED <<hinted, direct, directErr, fwd, result>>
  /\ task' = [task EXCEPT ![c] = "invoking"]
  /\ UNCHANGED <<mainVars, chan, slot, item, arrived, sent, envVars, execVars>>
  /\ UNCHANGED <<hintAsset, offSession>>

\* tool.ainvoke returns: set the flag, cancel the timer, await it
ToolReturnsOnChannel(c) ==
  /\ task[c] = "invoking"
  /\ timer' = [timer EXCEPT ![c] = TimerAfterCancel(@)]
  /\ task' = [task EXCEPT ![c] =
                IF MustAwaitHint(TimerAfterCancel(timer[c]))
                THEN "joining" ELSE "returned"]
  /\ \E r \in Results : result' = [result EXCEPT ![c] = r]
  /\ sent' = Append(sent, Msg("function_call_output", "tool_outputs", c,
                              "result"))
  /\ UNCHANGED <<mainVars, chan, slot, item, arrived, chunks, envVars,
                 execVars>>
  /\ UNCHANGED <<hintAsset, offSession>>

ToolReturns(c) ==
  /\ task[c] = "invoking"
  /\ timer' = [timer EXCEPT ![c] = TimerAfterCancel(@)]
  /\ task' = [task EXCEPT ![c] =
                IF MustAwaitHint(TimerAfterCancel(timer[c]))
                THEN "joining" ELSE "returned"]
  /\ \E r \in Results : result' = [result EXCEPT ![c] = r]
  /\ UNCHANGED <<mainVars, chan, slot, item, arrived, sent, chunks, envVars,
                 execVars>>
  /\ UNCHANGED <<hintAsset, offSession>>

\* the timer task is over: run_tool serialises the result and returns
RunToolJoin(c) ==
  /\ task[c] = "joining"
  /\ TimerOver(timer[c])
  /\ task' = [task EXCEPT ![c] = "returned"]
  /\ UNCHANGED <<mainVars, chan, slot, item, arrived, sent, chunks, envVars,
                 execVars, timer, result>>
  /\ UNCHANGED <<hintAsset, offSession>>

\* tool.ainvoke raises: nothing in run_tool catches it
ToolRaisesCancelling(c) ==
  /\ task[c] = "invoking"
  /\ task' = [task EXCEPT ![c] = "raised"]
  /\ timer' = [timer EXCEPT ![c] = TimerAfterCancel(@)]
  /\ UNCHANGED <<mainVars, chan, slot, item, arrived, sent, chunks, envVars,
                 execVars, result>>
  /\ UNCHANGED <<hintAsset, offSession>>

ToolRaises(c) ==
  /\ task[c] = "invoking"
  /\ task' = [task EXCEPT ![c] = "raised"]
  /\ UNCHANGED <<mainVars, chan, slot, item, arrived, sent, chunks, envVars,
                 execVars, timer, result>>
  /\ UNCHANGED <<hintAsset, offSession>>

\* ------------------------------------------------------------ delayed_wait_hint
\* send_tool_wait_hint_audio: one response.audio.delta chunk with the asset,
\* if there is an asset
SendHint(c) ==
  /\ hintAsset
  /\ hinted' = [hinted EXCEPT ![c] = @ + 1]
  /\ UNCHANGED <<notified, direct, directErr, fwd>>

\* asyncio.sleep(2) is over and the flag is not set: start sending the asset
TimerElapse(c) ==
  /\ timer[c] = "sleeping"
  /\ timer' = [timer EXCEPT ![c] = IF hintAsset THEN "sending" ELSE "done"]
  /\ UNCHANGED <<mainVars, chan, slot, item, arrived, sent, chunks, envVars,
                 execVars, task, result>>
  /\ UNCHANGED <<hintAsset, offSession>>

\* send_output_chunk has delivered the asset
TimerSent(c) ==
  /\ timer[c] = "sending"
  /\ timer' = [timer EXCEPT ![c] = "done"]
  /\ SendHint(c)
  /\ UNCHANGED <<mainVars, chan, slot, item, arrived, sent, envVars, execVars,
                 task, result>>
  /\ UNCHANGED <<hintAsset, offSession>>

\* CancelledError in the sleep: caught, nothing is sent
TimerCancelledAsleep(c) ==
  /\ timer[c] = "cancel_sleep"
  /\ timer' = [timer EXCEPT ![c] = "done"]
  /\ UNCHANGED <<mainVars, chan, slot, item, arrived, sent, chunks, envVars,
                 execVars, task, result>>
  /\ UNCHANGED <<hintAsset, offSession>>

\* CancelledError inside send_output_chunk: the asset may be out already
TimerCancelledSending(c) ==
  /\ timer[c] = "cancel_send"
  /\ timer' = [timer EXCEPT ![c] = "done"]
  /\ \/ SendHint(c)
     \/ UNCHANGED chunks
  /\ UNCHANGED <<mainVars, chan, slot, item, arrived, sent, envVars, execVars,
                 task, result>>
  /\ UNCHANGED <<hintAsset, offSession>>

\* ------------------------------------------------------------ sources
Arrive(k, it, st) ==
  /\ slot[k] = "pending"
  /\ slot' = [slot EXCEPT ![k] = st]
  /\ item' = [item EXCEPT ![k] = it]
  /\ arrived' = Append(arrived, k)

\* the client sends one message
InputArrives ==
  /\ Live
  /\ nIn < MaxInputs
  /\ \/ \E sh \in InputShapes :
          Arrive("input_mic", InputMsg(sh[1], sh[2], nIn + 1), "ready")
     \/ \E t \in PlainTexts :
          Arrive("input_mic", PlainText(t, nIn + 1), "ready")
  /\ nIn' = nIn + 1
  /\ UNCHANGED <<mainVars, chan, sent, chunks, nCalls, nOther, callKind,
                 execVars, toolVars>>
  /\ UNCHANGED <<hintAsset, offSession>>

\* the client is gone: input_stream ends
InputClosesRaising ==
  /\ Live
  /\ Arrive("input_mic", NoItem, "raised")
  /\ UNCHANGED <<mainVars, chan, sent, chunks, envVars, execVars, toolVars>>
  /\ UNCHANGED <<hintAsset, offSession>>

InputCloses ==
  /\ Live
  /\ Arrive("input_mic", NoItem, "exhausted")
  /\ UNCHANGED <<mainVars, chan, sent, chunks, envVars, execVars, toolVars>>
  /\ UNCHANGED <<hintAsset, offSession>>

\* the model service emits response.function_call_arguments.done
ModelEmitsCall ==
  /\ Live
  /\ chan = "open"
  /\ nCalls < MaxCalls
  /\ nCalls + nOther < MaxModelEvents
  /\ Arrive("output_speaker",
            [kind |-> "event", role |-> "-",
             ctype |-> "response.function_call_arguments.done",
             id |-> nCalls + 1],
            "ready")
  /\ nCalls' = nCalls + 1
  /\ \E v \in {"ok", "unknown_tool", "bad_json"} :
       callKind' = [callKind EXCEPT ![nCalls + 1] = v]
  /\ UNCHANGED <<mainVars, chan, sent, chunks, nIn, nOther, execVars, toolVars>>
  /\ UNCHANGED <<hintAsset, offSession>>

\* kinds of model events besides the function call: forwarded ones, one of
\* the ignore list, one the dispatch does not know
OtherKinds ==
  { "response.audio.delta", "response.audio_buffer.speech_started",
    "response.text.done", "rate_limits.updated", "future.event" }

\* the model service emits an event of another kind
ModelEmitsOther ==
  /\ Live
  /\ chan = "open"
  /\ nOther < MaxOther
  /\ nCalls + nOther < MaxModelEvents
  /\ \E t \in OtherKinds :
       Arrive("output_speaker",
              [kind |-> "event", role |-> "-", ctype |-> t, id |-> nOther + 1],
              "ready")
  /\ nOther' = nOther + 1
  /\ UNCHANGED <<mainVars, chan, sent, chunks, nIn, nCalls, callKind, execVars,
                 toolVars>>
  /\ UNCHANGED <<hintAsset, offSession>>

\* event_stream: the model service closed the websocket, the iteration ends
ModelStreamEnds ==
  /\ Live
  /\ Arrive("output_speaker", NoItem, "exhausted")
  /\ chan' = "closed"
  /\ UNCHANGED <<mainVars, sent, chunks, envVars, execVars, toolVars>>
  /\ UNCHANGED <<hintAsset, offSession>>

\* event_stream: the connection broke, the iteration raises
ModelStreamRaises ==
  /\ Live
  /\ Arrive("output_speaker", NoItem, "raised")
  /\ chan' = "closed"
  /\ UNCHANGED <<mainVars, sent, chunks, envVars, execVars, toolVars>>
  /\ UNCHANGED <<hintAsset, offSession>>

\* ------------------------------------------------------------ merger
\* an exhausted source is dropped and the merge goes on
TakeExhausted ==
  /\ pc = "wait"
  /\ arrived # <<>>
  /\ slot[Head(arrived)] = "exhausted"
  /\ slot' = [slot EXCEPT ![Head(arrived)] = "gone"]
  /\ arrived' = Tail(arrived)
  /\ UNCHANGED <<mainVars, chan, item, sent, chunks, envVars, execVars, toolVars>>
  /\ UNCHANGED <<hintAsset, offSession>>

\* a source raised: every other pending next-item task is cancelled (the one
\* of output_iterator dies in its asyncio.wait) and the merge raises
TakeRaisedNoCancel ==
  /\ pc = "wait"
  /\ arrived # <<>>
  /\ slot[Head(arrived)] = "raised"
  /\ slot' = [slot EXCEPT ![Head(arrived)] = "gone"]
  /\ arrived' = Tail(arrived)
  /\ End(IF Head(arrived) = "output_speaker" THEN "channel_broke"
         ELSE IF Head(arrived) = "tool_outputs" THEN "tool_raised"
         ELSE "input_broke")
  /\ UNCHANGED <<cur, nTurnEv, item, sent, chunks, envVars, toolVars>>
  /\ UNCHANGED <<trigger, itpc, batch, tasks, accepted, busyAdd, taken, outs>>
  /\ UNCHANGED <<hintAsset, offSession>>

TakeRaised ==
  /\ pc = "wait"
  /\ arrived # <<>>
  /\ slot[Head(arrived)] = "raised"
  /\ slot' = [k \in Keys |->
                IF k = Head(arrived) THEN "gone"
                ELSE IF slot[k] = "pending" THEN "cancelled" ELSE slot[k]]
  /\ itpc' = IF slot["tool_outputs"] = "pending" THEN "cancelled" ELSE itpc
  /\ arrived' = Tail(arrived)
  /\ End(IF Head(arrived) = "output_speaker" THEN "channel_broke"
         ELSE IF Head(arrived) = "tool_outputs" THEN "tool_raised"
         ELSE "input_broke")
  /\ UNCHANGED <<cur, nTurnEv, item, sent, chunks, envVars, toolVars>>
  /\ UNCHANGED <<trigger, batch, tasks, accepted, busyAdd, taken, outs>>
  /\ UNCHANGED <<hintAsset, offSession>>

\* the task running aconnect is cancelled while it is suspended
Cancel ==
  /\ pc \in {"wait", "resume", "text_sleep", "out_resp", "out_direct"}
  /\ End("cancelled")
  /\ UNCHANGED <<cur, nTurnEv, slot, item, arrived, sent, chunks>>
  /\ UNCHANGED <<envVars, execVars, toolVars>>
  /\ UNCHANGED <<hintAsset, offSession>>

\* ------------------------------------------------------------ specification
Init ==
  /\ pc = "init"
  /\ cur = Event("none", NoItem)
  /\ endCause = "none"
  /\ chan = "open"
  /\ slot = [k \in Keys |-> "none"]
  /\ item = [k \in Keys |-> NoItem]
  /\ arrived = <<>>
  /\ nIn = 0
  /\ nCalls = 0
  /\ nOther = 0
  /\ callKind = [c \in Calls |-> "unsent"]
  /\ trigger = 0
  /\ itpc = "run"
  /\ batch = {}
  /\ tasks = {}
  /\ task = [c \in Calls |-> "none"]
  /\ timer = [c \in Calls |-> "none"]
  /\ sent = <<>>
  /\ notified = [c \in Calls |-> 0]
  /\ hinted = [c \in Calls |-> 0]
  /\ result = [c \in Calls |-> "none"]
  /\ direct = [c \in Calls |-> <<>>]
  /\ directErr = {}
  /\ fwd = <<>>
  /\ accepted = {}
  /\ busyAdd = {}
  /\ taken = {}
  /\ outs = [c \in Calls |-> 0]
  /\ nTurnEv = 0
  /\ hintAsset \in BOOLEAN
  /\ produced = [k \in Keys |-> 0]
  /\ merged = <<>>
  /\ db = [k \in CacheKeys |-> Absent]
  /\ setLog = <<>>
  /\ tpc = [s \in Sessions |-> "idle"]
  /\ tkey = [s \in Sessions |-> "none"]
  /\ resp = [s \in Sessions |-> NoResponse]
  /\ reads = [s \in Sessions |-> 0]
  /\ writes = [s \in Sessions |-> 0]
  /\ wkey = [s \in Sessions |-> "none"]
  /\ lookups = [s \in Sessions |-> 0]
  /\ got = [s \in Sessions |-> Absent]
  /\ fault = [s \in Sessions |-> "none"]
  /\ nTool = 0
  /\ normIn = <<>>
  /\ normOut = <<>>
  /\ coll = <<>>
  /\ files = [d \in DocIds |-> Absent]
  /\ clock = 1
  /\ adding = [s \in Sessions |-> NoAdd]
  /\ added = NoAdd
  /\ srch = NoSearch
  /\ nAdds = 0
  /\ hpc = "accept"
  /\ clients = FALSE
  /\ recv = "none"
  /\ botCancel = FALSE
  /\ hexit = "none"
  /\ sock = "CONNECTED"
  /\ cpc = [c \in Callers |-> "idle"]
  /\ carg = [c \in Callers |-> "none"]
  /\ cdone = [c \in Callers |-> 0]
  /\ outcomes = <<>>
  /\ window_size = NoWindow
  /\ messages = <<>>
  /\ appended = <<>>
  /\ nMsgs = 0

Next ==
  \/ Start
  \/ TakeInputMic
  \/ TakeInputText
  \/ TakeInputScalar
  \/ TextWake
  \/ TakeToolOutput
  \/ OutResp
  \/ OutDirect
  \/ Resume
  \/ TakeFunctionCall
  \/ TakeIgnored
  \/ TakeForward
  \/ TakeExhausted
  \/ TakeRaised
  \/ Cancel
  \/ IterTakeValid
  \/ IterTakeInvalid
  \/ IterCollect
  \/ \E c \in Calls : RunToolStart(c)
  \/ \E c \in Calls : ToolReturns(c)
  \/ \E c \in Calls : RunToolJoin(c)
  \/ \E c \in Calls : ToolRaises(c)
  \/ \E c \in Calls : TimerElapse(c)
  \/ \E c \in Calls : TimerSent(c)
  \/ \E c \in Calls : TimerCancelledAsleep(c)
  \/ \E c \in Calls : TimerCancelledSending(c)
  \/ InputArrives
  \/ InputCloses
  \/ ModelEmitsCall
  \/ ModelEmitsOther
  \/ ModelStreamEnds
  \/ ModelStreamRaises

Spec == Init /\ [][Next]_vars

\* the event loop runs every task that is ready: the output_iterator task and
\* the task in aconnect's `async for` body each take their next step
IteratorStep == IterTakeValid \/ IterTakeInvalid \/ IterCollect

LoopStep ==
  \/ TakeInputMic \/ TakeInputText \/ TakeInputScalar \/ TextWake
  \/ TakeToolOutput \/ OutResp \/ OutDirect \/ Resume
  \/ TakeFunctionCall \/ TakeIgnored \/ TakeForward
  \/ TakeExhausted \/ TakeRaised

FairSpec == Spec /\ WF_vars(IteratorStep) /\ WF_vars(LoopStep)


\* ------------------------------------------------------------ the merger alone
\* amerge driven by three arbitrary finite sources and a consumer that only
\* records what the merge yields.  The state of the merge is slot, item,
\* arrived, pc and cur, as in a session; everything of the session is idle.
offMerge == <<chan, nIn, nCalls, nOther, callKind, trigger, itpc, batch, tasks,
              task, timer, sent, notified, hinted, result, direct, directErr, fwd, accepted,
              busyAdd, taken, outs, nTurnEv, hintAsset, exactVars, normVars,
              semVars, srvVars,
              chunkVars,
              histVars>>

MergeItem(n) == [kind |-> "item", role |-> "-", ctype |-> "-", id |-> n]

\* the merge is called: one next-item request per source
MergeStart ==
  /\ pc = "init"
  /\ pc' = "wait"
  /\ slot' = [k \in Keys |-> "pending"]
  /\ UNCHANGED <<cur, endCause, item, arrived, produced, merged, offMerge>>

\* a source resolves its pending request with its next item
SourceYields(k) ==
  /\ Live
  /\ produced[k] < MaxItems
  /\ Arrive(k, MergeItem(produced[k] + 1), "ready")
  /\ produced' = [produced EXCEPT ![k] = @ + 1]
  /\ UNCHANGED <<pc, cur, endCause, merged, offMerge>>

\* a source is exhausted
SourceEnds(k) ==
  /\ Live
  /\ Arrive(k, NoItem, "exhausted")
  /\ UNCHANGED <<pc, cur, endCause, produced, merged, offMerge>>

\* a source raises
SourceRaises(k) ==
  /\ Live
  /\ Arrive(k, NoItem, "raised")
  /\ UNCHANGED <<pc, cur, endCause, produced, merged, offMerge>>

\* the merge yields the request that resolved first; the consumer records it
MergeYieldsDroppingRest ==
  /\ pc = "wait"
  /\ arrived # <<>>
  /\ slot[Head(arrived)] = "ready"
  /\ merged' = Append(merged, <<Head(arrived), item[Head(arrived)].id>>)
  /\ cur' = Event(Head(arrived), item[Head(arrived)])
  /\ item' = [k \in Keys |-> IF slot[k] = "ready" THEN NoItem ELSE item[k]]
  /\ slot' = [k \in Keys |->
                IF k = Head(arrived) THEN "consumed"
                ELSE IF slot[k] = "ready" THEN "pending" ELSE slot[k]]
  /\ arrived' = SelectSeq(Tail(arrived), LAMBDA k : slot[k] # "ready")
  /\ pc' = "resume"
  /\ UNCHANGED <<endCause, produced, offMerge>>

MergeYields ==
  /\ pc = "wait"
  /\ arrived # <<>>
  /\ slot[Head(arrived)] = "ready"
  /\ merged' = Append(merged, <<Head(arrived), item[Head(arrived)].id>>)
  /\ cur' = Event(Head(arrived), item[Head(arrived)])
  /\ item' = [item EXCEPT ![Head(arrived)] = NoItem]
  /\ slot' = [slot EXCEPT ![Head(arrived)] = "consumed"]
  /\ arrived' = Tail(arrived)
  /\ pc' = "resume"
  /\ UNCHANGED <<endCause, produced, offMerge>>

\* a source raised: the other pending requests are cancelled, the merge fails
MergeFails ==
  /\ pc = "wait"
  /\ arrived # <<>>
  /\ slot[Head(arrived)] = "raised"
  /\ slot' = [k \in Keys |->
                IF k = Head(arrived) THEN "gone"
                ELSE IF slot[k] = "pending" THEN "cancelled" ELSE slot[k]]
  /\ arrived' = Tail(arrived)
  /\ pc' = "ended"
  /\ endCause' = "source_raised"
  /\ UNCHANGED <<cur, item, produced, merged, offMerge>>

\* every source is exhausted: the merge is over
MergeEnds ==
  /\ pc = "wait"
  /\ \A k \in Keys : slot[k] = "gone"
  /\ pc' = "ended"
  /\ endCause' = "exhausted"
  /\ UNCHANGED <<cur, slot, item, arrived, produced, merged, offMerge>>

MergeNext ==
  \/ MergeStart
  \/ \E k \in Keys : SourceYields(k)
  \/ \E k \in Keys : SourceEnds(k)
  \/ \E k \in Keys : SourceRaises(k)
  \/ MergeYields
  \/ Resume
  \/ TakeExhausted
  \/ MergeFails
  \/ MergeEnds

MergeSpec == Init /\ [][MergeNext]_vars


\* ------------------------------------------------------------ the exact cache
\* SimpleSqliteCache and the search tools that read and write it
\* (BaseSearchTool._arun_common, LocationSearch._arun, StorySearch._arun).
\* Every session holds the same table; an invocation is a coroutine whose
\* only suspension between its get and its set is the live lookup.
offCache == <<pc, cur, endCause, chan, slot, item, arrived, nIn, nCalls, nOther,
              callKind, trigger, itpc, batch, tasks, task, timer, sent,
              notified, hinted, result, direct, directErr, fwd, accepted, busyAdd, taken,
              outs, nTurnEv, hintAsset, produced, merged, normVars, semVars,
              srvVars,
              chunkVars,
              histVars>>

\* SimpleSqliteCache.get: self.db.get(key, None)
CacheGet(store, k) == store[k]

\* SimpleSqliteCache.set: self.db[key] = value
CacheSetKeepFirst(store, k, v) ==
  IF store[k] = Absent THEN [store EXCEPT ![k] = v] ELSE store
CacheSet(store, k, v) == [store EXCEPT ![k] = v]

\* `if cached is not None`
IsHitTruthy(v) == v \notin {Absent, EmptyList}
IsHit(v) == v # Absent

\* what the miss branch has to store once the live search has returned: the
\* checked videos of the extraction, or of {"items": []} when the extraction
\* raised
Extractions == {"extracted", "extract_failed"}
CheckedVideos(x) == IF x = "extract_failed" THEN {EmptyList} ELSE CacheValues

\* the response built from the checked videos, and the response of the
\* outer `except Exception`
generate_response(v) == [kind |-> "result", of |-> v]
handle_error == [kind |-> "error", of |-> Absent]

\* the key the miss branch hands to set: cache_key, the key that was read
SetKeyOther(s) == CHOOSE k \in CacheKeys : k # tkey[s]
SetKey(s) == tkey[s]

\* the invocation up to its first suspension: the key is built, the cache is
\* read; a hit returns the response made from the cached value, a miss starts
\* the live lookup, a raising get lands in the outer except
ToolBegins(s) ==
  /\ tpc[s] \in {"idle", "returned"}
  /\ nTool < MaxToolCalls
  /\ nTool' = nTool + 1
  /\ \E k \in CacheKeys, ok \in BOOLEAN :
       /\ tkey' = [tkey EXCEPT ![s] = k]
       /\ reads' = [reads EXCEPT ![s] = 1]
       /\ writes' = [writes EXCEPT ![s] = 0]
       /\ wkey' = [wkey EXCEPT ![s] = "none"]
       /\ IF ~ok
          THEN /\ fault' = [fault EXCEPT ![s] = "get"]
               /\ got' = [got EXCEPT ![s] = Absent]
               /\ lookups' = [lookups EXCEPT ![s] = 0]
               /\ resp' = [resp EXCEPT ![s] = handle_error]
               /\ tpc' = [tpc EXCEPT ![s] = "returned"]
          ELSE /\ fault' = [fault EXCEPT ![s] = "none"]
               /\ got' = [got EXCEPT ![s] = CacheGet(db, k)]
               /\ IF IsHit(CacheGet(db, k))
                  THEN /\ lookups' = [lookups EXCEPT ![s] = 0]
                       /\ resp' = [resp EXCEPT ![s] =
                                     generate_response(CacheGet(db, k))]
                       /\ tpc' = [tpc EXCEPT ![s] = "returned"]
                  ELSE /\ lookups' = [lookups EXCEPT ![s] = 1]
                       /\ resp' = [resp EXCEPT ![s] = NoResponse]
                       /\ tpc' = [tpc EXCEPT ![s] = "live"]
  /\ UNCHANGED <<db, setLog, offCache>>

\* the live lookup delivered: the checked videos are set under the key and
\* the response is returned; a raising set lands in the outer except
LiveReturns(s) ==
  /\ tpc[s] = "live"
  /\ \E x \in Extractions, ok \in BOOLEAN : \E v \in CheckedVideos(x) :
       /\ writes' = [writes EXCEPT ![s] = 1]
       /\ wkey' = [wkey EXCEPT ![s] = SetKey(s)]
       /\ IF ok
          THEN /\ db' = CacheSet(db, SetKey(s), v)
               /\ setLog' = Append(setLog, <<s, SetKey(s), v>>)
               /\ resp' = [resp EXCEPT ![s] = generate_response(v)]
               /\ fault' = fault
          ELSE /\ UNCHANGED <<db, setLog>>
               /\ resp' = [resp EXCEPT ![s] = handle_error]
               /\ fault' = [fault EXCEPT ![s] = "set"]
  /\ tpc' = [tpc EXCEPT ![s] = "returned"]
  /\ UNCHANGED <<tkey, reads, lookups, got, nTool, offCache>>

\* the live lookup raised: the outer except returns the error response
LiveRaises(s) ==
  /\ tpc[s] = "live"
  /\ resp' = [resp EXCEPT ![s] = handle_error]
  /\ tpc' = [tpc EXCEPT ![s] = "returned"]
  /\ UNCHANGED <<db, setLog, tkey, reads, writes, wkey, lookups, got, fault,
                 nTool, offCache>>

CacheNext ==
  \/ \E s \in Sessions : ToolBegins(s)
  \/ \E s \in Sessions : LiveReturns(s)
  \/ \E s \in Sessions : LiveRaises(s)

CacheSpec == Init /\ [][CacheNext]_vars


\* ------------------------------------------------------------ normalize_text
\* A text is a sequence of characters.  The characters: LATIN SMALL LETTER C,
\* LATIN CAPITAL LETTER C, FULLWIDTH LATIN CAPITAL LETTER C (U+FF23),
\* FULLWIDTH LATIN SMALL LETTER C (U+FF43), DOUBLE-STRUCK CAPITAL C (U+2102),
\* EXCLAMATION MARK, SPACE and IDEOGRAPHIC SPACE (U+3000).
offNorm == <<pc, cur, endCause, chan, slot, item, arrived, nIn, nCalls, nOther,
             callKind, trigger, itpc, batch, tasks, task, timer, sent,
             notified, hinted, result, direct, directErr, fwd, accepted, busyAdd, taken,
             outs, nTurnEv, hintAsset, produced, merged, exactVars, semVars,
             srvVars,
              chunkVars,
              histVars>>

Chars == {"c", "C", "FW_C", "fw_c", "DS_C", "!", " ", "IDSP"}

RECURSIVE TextsOfLen(_)
TextsOfLen(n) ==
  IF n = 0 THEN {<<>>}
  ELSE {Append(t, ch) : t \in TextsOfLen(n - 1), ch \in Chars}
Texts == UNION {TextsOfLen(n) : n \in 0..MaxTextLen}

\* str.lower of one character: U+2102 has no lowercase mapping
lower(ch) ==
  CASE ch = "C" -> "c"
    [] ch = "FW_C" -> "fw_c"
    [] OTHER -> ch

\* unicodedata.normalize('NFKC', .) of one character
NFKC(ch) ==
  CASE ch = "FW_C" -> "C"
    [] ch = "fw_c" -> "c"
    [] ch = "DS_C" -> "C"
    [] ch = "IDSP" -> " "
    [] OTHER -> ch

isalnum(ch) == ch \in {"c", "C", "FW_C", "fw_c", "DS_C"}
isspace(ch) == ch \in {" ", "IDSP"}

\* ' '.join(text.split()): the words of the text, one space between them
JoinSplit(t) ==
  LET F[i \in 0..Len(t)] ==
        IF i = 0 THEN <<>>
        ELSE IF ~isspace(t[i]) THEN Append(F[i - 1], t[i])
        ELSE IF i > 1 /\ ~isspace(t[i - 1]) THEN Append(F[i - 1], " ")
        ELSE F[i - 1]
      u == F[Len(t)]
  IN IF u # <<>> /\ u[Len(u)] = " " THEN SubSeq(u, 1, Len(u) - 1) ELSE u

normalize_text(text) ==
  LET lowered == [i \in 1..Len(text) |-> lower(text[i])]
      folded  == [i \in 1..Len(lowered) |-> NFKC(lowered[i])]
      kept    == SelectSeq(folded, LAMBDA ch : isalnum(ch) \/ isspace(ch))
  IN JoinSplit(kept)

\* normalize_text is applied to two texts
NormalizeTexts ==
  /\ normIn = <<>>
  /\ \E a, b \in Texts :
       /\ normIn' = <<a, b>>
       /\ normOut' = <<normalize_text(a), normalize_text(b)>>
  /\ UNCHANGED offNorm

NormNext == NormalizeTexts

NormSpec == Init /\ [][NormNext]_vars


\* ------------------------------------------------------------ the semantic cache
\* VectorDBCache: a Chroma collection of normalized texts and one value file
\* per document id, shared by every session.  Similarities and the threshold
\* are in hundredths.
offSem == <<pc, cur, endCause, chan, slot, item, arrived, nIn, nCalls, nOther,
            callKind, trigger, itpc, batch, tasks, task, timer, sent,
            notified, hinted, result, direct, directErr, fwd, accepted, busyAdd, taken,
            outs, nTurnEv, hintAsset, produced, merged, exactVars, normVars,
            srvVars,
              chunkVars,
              histVars>>

\* DEFAULT_TAU = 0.90
Tau == 90
\* n_results=5
NResults == 5

\* add's default ttl
DefaultTTL == 3600

\* the query texts: a text, a text close to it (written with a fullwidth
\* capital and punctuation) and a text far from the first
Queries == {<<"c">>, <<"FW_C", "!", "c">>, <<"c", "c", "c">>}

\* the distance Chroma reports between the embeddings of two normalized texts
EmbDist(a, b) ==
  IF a = b THEN 0
  ELSE IF {Len(a), Len(b)} = {1, 2} THEN 5
  ELSE IF {Len(a), Len(b)} = {2, 3} THEN 40
  ELSE 130

\* the records a search looks at: the whole collection, whatever the
\* metadata and the time of the search
CandidatesFresh(store, meta, now) ==
  SelectSeq(store, LAMBDA e : /\ e.param_hash = meta.param_hash
                              /\ e.saved_at + e.ttl >= now)
Candidates(store, meta, now) == store

\* collection.query(query_texts=[norm_query], n_results=5): the positions of
\* the nearest records, nearest first; records at the same distance come in
\* any order
QueryResults(store, nq) ==
  LET n == Len(store)
      k == IF n < NResults THEN n ELSE NResults
      d(i) == EmbDist(nq, store[i].doc)
  IN { r \in [1..k -> 1..n] :
         /\ \A i, j \in 1..k : i < j => (r[i] # r[j] /\ d(r[i]) <= d(r[j]))
         /\ \A i \in 1..k, j \in 1..n :
              (\A h \in 1..k : r[h] # j) => d(r[i]) <= d(j) }

\* the loop of search_with_score over the distances: best_score and the
\* position of best_id (0 for None) after the first i results
RECURSIVE ScoreLoop(_, _, _, _)
ScoreLoop(store, nq, r, i) ==
  IF i = 0 THEN [score |-> 0, at |-> 0]
  ELSE LET prev == ScoreLoop(store, nq, r, i - 1)
           cos_sim == 100 - EmbDist(nq, store[r[i]].doc)
       IN IF cos_sim > prev.score THEN [score |-> cos_sim, at |-> r[i]]
          ELSE prev

\* the loop of search
RECURSIVE SearchLoop(_, _, _, _)
SearchLoop(store, nq, r, i) ==
  IF i = 0 THEN [score |-> 0, at |-> 0]
  ELSE LET prev == SearchLoop(store, nq, r, i - 1)
           cos_sim == 100 - EmbDist(nq, store[r[i]].doc)
       IN IF cos_sim > prev.score /\ cos_sim >= Tau
          THEN [score |-> cos_sim, at |-> r[i]]
          ELSE prev

\* `if best_id and best_score >= self.tau`
HitTestAny(best) == best.at # 0
HitTest(best) == best.at # 0 /\ best.score >= Tau

\* what search_with_score may return
ScoreOutcomes(store, fs, query, meta, now) ==
  LET nq == normalize_text(query)
      cands == Candidates(store, meta, now)
  IN { LET best == ScoreLoop(cands, nq, r, Len(r))
       IN IF HitTest(best) /\ fs[cands[best.at].id] # Absent
          THEN [value |-> fs[cands[best.at].id], hit |-> TRUE,
                score |-> best.score]
          ELSE [value |-> Absent, hit |-> FALSE, score |-> best.score]
       : r \in QueryResults(cands, nq) }

\* what search may return
SearchOutcomes(store, fs, query, meta, now) ==
  LET nq == normalize_text(query)
      cands == Candidates(store, meta, now)
  IN { LET best == SearchLoop(cands, nq, r, Len(r))
       IN IF best.at # 0 THEN fs[cands[best.at].id] ELSE Absent
       : r \in QueryResults(cands, nq) }

DocIdsOf(store) == {store[i].id : i \in 1..Len(store)}

\* add up to collection.add: the text is normalized, the id is made of
\* param_hash and the second of the clock, the record is indexed.  Chroma
\* either ignores a record whose id it already holds or raises.
AddIndexes(s) ==
  /\ adding[s] = NoAdd
  /\ nAdds < MaxAdds
  /\ nAdds' = nAdds + 1
  /\ \E q \in Queries, h \in ParamHashes, v \in SemValues :
       LET doc_id == <<h, clock>>
           rec == [id |-> doc_id, doc |-> normalize_text(q),
                   param_hash |-> h, saved_at |-> clock, ttl |-> DefaultTTL]
           mine == [id |-> doc_id, query |-> q, value |-> v]
       IN IF doc_id \in DocIdsOf(coll)
          THEN /\ coll' = coll
               /\ \/ adding' = [adding EXCEPT ![s] = mine]
                  \/ adding' = adding
          ELSE /\ coll' = Append(coll, rec)
               /\ adding' = [adding EXCEPT ![s] = mine]
  /\ srch' = NoSearch
  /\ UNCHANGED <<files, clock, added, offSem>>

\* the rest of add: the value is written to the file named by the id
AddWritesValue(s) ==
  /\ adding[s] # NoAdd
  /\ files' = [files EXCEPT ![adding[s].id] = adding[s].value]
  /\ added' = adding[s]
  /\ adding' = [adding EXCEPT ![s] = NoAdd]
  /\ srch' = NoSearch
  /\ UNCHANGED <<coll, clock, nAdds, offSem>>

\* a call of search_with_score; srch keeps one search until the store changes
SearchWithScore ==
  /\ srch = NoSearch
  /\ \E q \in Queries, h \in ParamHashes, now \in Times :
       \E res \in ScoreOutcomes(coll, files, q, [param_hash |-> h], now) :
         srch' = [op |-> "search_with_score", query |-> q, param_hash |-> h,
                  now |-> now, value |-> res.value, hit |-> res.hit,
                  score |-> res.score]
  /\ UNCHANGED <<coll, files, clock, adding, added, nAdds, offSem>>

\* a call of search
Search ==
  /\ srch = NoSearch
  /\ \E q \in Queries, h \in ParamHashes, now \in Times :
       \E val \in SearchOutcomes(coll, files, q, [param_hash |-> h], now) :
         srch' = [op |-> "search", query |-> q, param_hash |-> h, now |-> now,
                  value |-> val, hit |-> val # Absent, score |-> 0]
  /\ UNCHANGED <<coll, files, clock, adding, added, nAdds, offSem>>

\* a second passes
Tick ==
  /\ clock < MaxTime
  /\ clock' = clock + 1
  /\ UNCHANGED <<coll, files, adding, added, srch, nAdds, offSem>>

SemNext ==
  \/ \E s \in Sessions : AddIndexes(s)
  \/ \E s \in Sessions : AddWritesValue(s)
  \/ SearchWithScore
  \/ Search
  \/ Tick

\* the asset of the voice session plays no part in the caches
SemInit == Init /\ hintAsset

SemSpec == SemInit /\ [][SemNext]_vars


\* ------------------------------------------------------------ the server
\* websocket_endpoint of cine_bot_server.py: the handler of one client
\* connection, its receive_task and its cinebot_task, which runs aconnect.
\* The session is the one modelled above, with a model service that emits no
\* events; its input stream is fed by receive_task through input_queue.
offSrv == <<pc, cur, endCause, chan, slot, item, arrived, nIn, nCalls, nOther,
            callKind, trigger, itpc, batch, tasks, task, timer, sent,
            notified, hinted, result, direct, directErr, fwd, accepted, busyAdd, taken,
            outs, nTurnEv, hintAsset, produced, merged, exactVars, normVars,
            semVars,
              chunkVars,
              histVars>>

\* cinebot_task exists, and no cancellation is waiting to be thrown into it
BotRuns == hpc \in {"wait", "cancel_bot", "cancel_recv", "returned"}
BotFree == BotRuns /\ ~botCancel

\* the finally of websocket_endpoint
DiscardSkipped == clients' = clients
Discard == clients' = FALSE

\* websocket.accept, connected_clients.add, and the try block up to the
\* greeting; accept or create_cine_bot may raise
Accept ==
  /\ hpc = "accept"
  /\ \/ /\ hpc' = "returned" /\ hexit' = "accept_raised"
        /\ clients' = clients
     \/ /\ hpc' = "greet" /\ hexit' = hexit
        /\ clients' = TRUE
     \/ /\ hpc' = "returned" /\ hexit' = "error"
        /\ Discard
  /\ UNCHANGED <<recv, botCancel, offSrv>>

\* the greeting is sent, both tasks are created and asyncio.wait is entered;
\* or send_json raises and the handler leaves through except and finally
Greet ==
  /\ hpc = "greet"
  /\ \/ /\ hpc' = "wait" /\ recv' = "running"
        /\ UNCHANGED <<clients, hexit>>
     \/ /\ \E e \in {"disconnect", "error"} : hexit' = e
        /\ hpc' = "returned"
        /\ Discard
        /\ recv' = recv
  /\ UNCHANGED <<botCancel, offSrv>>

\* receive_messages: receive_text raises WebSocketDisconnect or another
\* exception; the finally puts None on input_queue and the task is done
ClientDisconnects ==
  /\ recv = "running"
  /\ recv' = "done"
  /\ UNCHANGED <<hpc, clients, botCancel, hexit, offSrv>>

\* asyncio.wait returns: a task is done.  The handler cancels the pending
\* task and awaits it; with none pending it falls through to the finally.
WaitReturns ==
  /\ hpc = "wait"
  /\ recv = "done" \/ pc = "ended"
  /\ IF pc # "ended"
     THEN /\ botCancel' = TRUE /\ hpc' = "cancel_bot"
          /\ UNCHANGED <<clients, hexit>>
     ELSE IF recv = "running"
     THEN /\ hpc' = "cancel_recv"
          /\ UNCHANGED <<clients, hexit, botCancel>>
     ELSE /\ hpc' = "returned" /\ hexit' = "normal"
          /\ Discard
          /\ UNCHANGED botCancel
  /\ UNCHANGED <<recv, offSrv>>

\* receive_task takes the CancelledError at receive_text: its finally puts
\* None on input_queue
ReceiveCancelled ==
  /\ hpc = "cancel_recv"
  /\ recv = "running"
  /\ recv' = "cancelled"
  /\ UNCHANGED <<hpc, clients, botCancel, hexit, offSrv>>

\* `await task` raises CancelledError, which is passed over; the finally
HandlerReturns ==
  /\ \/ hpc = "cancel_bot" /\ pc = "ended"
     \/ hpc = "cancel_recv" /\ recv = "cancelled"
  /\ hpc' = "returned"
  /\ hexit' = "normal"
  /\ Discard
  /\ UNCHANGED <<recv, botCancel, offSrv>>

\* cinebot_task takes the CancelledError before aconnect sent anything
BotCancelledEarly ==
  /\ botCancel /\ pc = "init"
  /\ End("cancelled")
  /\ UNCHANGED <<cur, nTurnEv, slot, item, arrived, sent, chunks>>
  /\ UNCHANGED <<envVars, execVars, toolVars>>
  /\ UNCHANGED <<hintAsset, offSession>>

\* cinebot_task takes the CancelledError where aconnect is suspended
BotCancelled == botCancel /\ Cancel

\* the steps of cinebot_task and of its sources
BotStart == BotFree /\ Start
BotTakeInputMic == BotFree /\ TakeInputMic
BotTakeInputText == BotFree /\ TakeInputText
BotTakeInputScalar == BotFree /\ TakeInputScalar
BotTextWake == BotFree /\ TextWake
BotResume == BotFree /\ Resume
BotTakeExhausted == BotFree /\ TakeExhausted
BotTakeRaised == BotFree /\ TakeRaised
\* a message of the client goes through input_queue to input_stream
ClientSends == BotRuns /\ recv = "running" /\ InputArrives
\* input_stream takes the None and ends
InputStreamEnds == BotRuns /\ recv \in {"done", "cancelled"} /\ InputCloses
ServiceEnds == BotRuns /\ ModelStreamEnds
ServiceBreaks == BotRuns /\ ModelStreamRaises

SrvNext ==
  \/ Accept
  \/ Greet
  \/ ClientDisconnects
  \/ WaitReturns
  \/ ReceiveCancelled
  \/ HandlerReturns
  \/ BotCancelledEarly
  \/ BotCancelled
  \/ BotStart
  \/ BotTakeInputMic
  \/ BotTakeInputText
  \/ BotTakeInputScalar
  \/ BotTextWake
  \/ BotResume
  \/ BotTakeExhausted
  \/ BotTakeRaised
  \/ ClientSends
  \/ InputStreamEnds
  \/ ServiceEnds
  \/ ServiceBreaks

SrvInit == Init /\ hintAsset

SrvSpec == SrvInit /\ [][SrvNext]_vars

\* ------------------------------------------------------------ send_output_chunk
\* The server's send_output_chunk under its callers: the loop body of aconnect
\* and the run_tool tasks each await it, one call at a time per caller, while
\* the client may go away at any moment.
offChunk == <<pc, cur, endCause, chan, slot, item, arrived, nIn, nCalls, nOther,
              callKind, trigger, itpc, batch, tasks, task, timer, sent,
              notified, hinted, result, direct, directErr, fwd, accepted,
              busyAdd, taken, outs, nTurnEv, hintAsset, produced, merged,
              exactVars, normVars, semVars, srvVars,
              histVars>>

\* the call is over and its caller goes on
Returned(c, res) ==
  /\ cpc' = [cpc EXCEPT ![c] = "idle"]
  /\ cdone' = [cdone EXCEPT ![c] = @ + 1]
  /\ outcomes' = Append(outcomes, [by |-> c, chunk |-> carg'[c], res |-> res])

\* the message send_json is given: the parsed chunk, or a text_response
\* wrapping a chunk json.loads rejects
Payload(k) == IF k = "json" THEN "parsed" ELSE "text_response"

\* the call up to its first await: client_state is tested, then json.loads
CallerSends(c) ==
  /\ cpc[c] = "idle"
  /\ cdone[c] < MaxChunks
  /\ \E k \in ChunkKinds :
       /\ carg' = [carg EXCEPT ![c] = k]
       /\ IF sock # "CONNECTED" THEN Returned(c, "dropped")
          ELSE IF k = "blank" THEN Returned(c, "nothing")
          ELSE /\ cpc' = [cpc EXCEPT ![c] = "sending"]
               /\ UNCHANGED <<cdone, outcomes>>
  /\ UNCHANGED <<sock, offChunk>>

\* websocket.send_json raised: `except Exception` logs the error
SendRaisedUncaught(c) ==
  /\ cpc' = [cpc EXCEPT ![c] = "crashed"]
  /\ UNCHANGED <<cdone, outcomes>>

SendRaised(c) == Returned(c, "error_logged")

\* websocket.send_json returns, or raises: it raises when the socket is no
\* longer connected, and may raise at any time
SendCompletes(c) ==
  /\ cpc[c] = "sending"
  /\ carg' = carg
  /\ \/ /\ sock = "CONNECTED"
        /\ Returned(c, Payload(carg[c]))
     \/ SendRaised(c)
  /\ UNCHANGED <<sock, offChunk>>

\* the client goes away
ClientDrops ==
  /\ sock = "CONNECTED"
  /\ sock' = "DISCONNECTED"
  /\ UNCHANGED <<cpc, carg, cdone, outcomes, offChunk>>

ChunkNext ==
  \/ \E c \in Callers : CallerSends(c)
  \/ \E c \in Callers : SendCompletes(c)
  \/ ClientDrops

ChunkSpec == Init /\ [][ChunkNext]_vars

\* ------------------------------------------------------------ WindowedChatHistory
\* One chat history: constructed with a window size, then add_message and
\* clear in any order.  A message is its class and the number of the
\* add_message call that brought it.
offHist == <<pc, cur, endCause, chan, slot, item, arrived, nIn, nCalls, nOther,
             callKind, trigger, itpc, batch, tasks, task, timer, sent,
             notified, hinted, result, direct, directErr, fwd, accepted,
             busyAdd, taken, outs, nTurnEv, hintAsset, produced, merged,
             exactVars, normVars, semVars, srvVars, chunkVars>>

\* TMDBChatSession.chat adds a HumanMessage and an AIMessage
MessageClasses == {"HumanMessage", "AIMessage"}

\* the window sizes a history is constructed with; TMDBChatSession passes
\* memory_window * 2
WindowSizes == 0..MaxWindow

\* Python's seq[-n:]: from index len - n for a positive n no larger than
\* len, the whole list for n = 0 (-0 is 0) and for n larger than len
NegSlice(seq, n) ==
  IF n = 0 \/ n >= Len(seq) THEN seq
  ELSE SubSeq(seq, Len(seq) - n + 1, Len(seq))

\* WindowedChatHistory(window_size = w)
NewHistory ==
  /\ window_size = NoWindow
  /\ \E w \in WindowSizes : window_size' = w
  /\ messages' = <<>>
  /\ UNCHANGED <<appended, nMsgs, offHist>>

\* append, then cut to the last window_size if the list is longer
add_message ==
  /\ window_size # NoWindow
  /\ nMsgs < MaxMsgs
  /\ nMsgs' = nMsgs + 1
  /\ \E cls \in MessageClasses :
       LET m == [cls |-> cls, n |-> nMsgs + 1]
           grown == Append(messages, m) IN
       /\ messages' = IF Len(grown) > window_size
                       THEN NegSlice(grown, window_size) ELSE grown
       /\ appended' = Append(appended, m)
  /\ UNCHANGED <<window_size, offHist>>

\* self.messages.clear()
clear ==
  /\ window_size # NoWindow
  /\ messages' = <<>>
  /\ appended' = <<>>
  /\ UNCHANGED <<window_size, nMsgs, offHist>>

HistNext == NewHistory \/ add_message \/ clear

HistSpec == Init /\ [][HistNext]_vars


\* ------------------------------------------------------------ claims
InputIds == 1..MaxInputs

Running(c) == task[c] \in {"created", "invoking", "joining"}

Outputs(c) ==
  {i \in DOMAIN sent : sent[i].t = "function_call_output" /\ sent[i].id = c}

Items(n) ==
  {i \in DOMAIN sent : /\ sent[i].t = "conversation.item.create"
                       /\ sent[i].src = "input_mic" /\ sent[i].id = n}

TurnRequests(src, n) ==
  {i \in DOMAIN sent : /\ sent[i].t = "response.create"
                       /\ sent[i].src = src /\ sent[i].id = n}

C2_SecondCallRejected ==
  \A c \in busyAdd :
    /\ c \notin accepted
    /\ task[c] = "none"
    /\ timer[c] = "none"

\* C3: in no step taken after run_tool has returned the call output of a call
\* does the number of wait-hint assets sent for that call grow.
C3_NoHintAfterOutput ==
  [][\A c \in Calls : task[c] = "returned" => hinted'[c] = hinted[c]]_vars

\* both durations: one call returned after its hint went out, one before the
\* delay was over
C3_Witness ==
  \E c, d \in Calls :
    /\ task[c] = "returned" /\ hinted[c] = 1
    /\ task[d] = "returned" /\ hinted[d] = 0

\* C4: the response.create messages sent number the tool-output events plus
\* the user-role text inputs taken; only the event being handled may still be
\* short of its turn request.
C4_OneTurnRequestPerEvent ==
  LET n == Count(sent, "response.create") IN
  /\ n <= nTurnEv
  /\ nTurnEv <= n + 1
  /\ pc \in {"wait", "resume"} => n = nTurnEv
  /\ n < nTurnEv => TurnEvent(cur.key, cur.data)

\* a user text and a tool output have both been handled to the end
C4_Witness ==
  /\ pc = "wait"
  /\ \E n \in InputIds : TurnRequests("input_mic", n) # {}
  /\ \E c \in Calls : TurnRequests("tool_outputs", c) # {}

\* C5: every accepted call gets exactly one function_call_output on the model
\* channel: never two, and never none: a session that has ended with the
\* channel intact and without being cancelled has sent one for each.
C5_ExactlyOneOutput ==
  \A c \in accepted :
    /\ Cardinality(Outputs(c)) <= 1
    /\ (pc = "ended" /\ endCause = "tool_raised")
         => Cardinality(Outputs(c)) = 1

\* C6: a tool invocation that raised is caught: once output_iterator has
\* collected the task it has yielded an output for the call and is still
\* running, and the session has not ended on it.
C6_ToolErrorBecomesOutput ==
  \A c \in Calls :
    (task[c] = "raised" /\ c \notin tasks)
      => /\ outs[c] = 1
         /\ itpc = "run"
         /\ endCause # "tool_raised"

\* C7: after aconnect has ended on a failed send, a closed channel or a
\* cancellation, no run_tool task and no wait-hint timer is still running.
C7_NothingRunningAfterExit ==
  (pc = "ended" /\ endCause \in {"send_failed", "channel_broke", "cancelled"})
    => \A c \in Calls : ~Running(c) /\ TimerOver(timer[c])

\* C8: a call with an unknown tool or unparsable arguments is never executed,
\* yields exactly one call output, an error, once output_iterator has taken
\* it, and leaves the trigger free for the next add_tool_call.
C8_InvalidCallYieldsOneError ==
  \A c \in Calls :
    callKind[c] \in {"unknown_tool", "bad_json"} =>
      /\ task[c] = "none" /\ timer[c] = "none" /\ notified[c] = 0
      /\ outs[c] = (IF c \in taken THEN 1 ELSE 0)
      /\ c \in taken => trigger # c
      /\ Cardinality(Outputs(c)) <= 1
      /\ \A i \in Outputs(c) : sent[i].v = "error"
      /\ (c \in taken /\ \A d \in Calls : task[d] # "raised") => itpc # "raised"

\* an invalid call was answered with its error and the next call was accepted
C8_Witness ==
  \E c, d \in Calls :
    /\ callKind[c] = "bad_json" /\ Outputs(c) # {}
    /\ c < d /\ d \in accepted

\* C9: for a user text input the conversation item goes out first and, once
\* the debounce sleep is over, exactly one response.create follows it.
C9_ItemThenOneTurnRequest ==
  \A n \in InputIds :
    /\ Cardinality(TurnRequests("input_mic", n)) <= 1
    /\ \A j \in TurnRequests("input_mic", n) :
         \E i \in Items(n) : i < j /\ sent[i].v = "user"
    /\ (cur.key = "input_mic" /\ cur.data.id = n /\ pc = "text_sleep")
         => TurnRequests("input_mic", n) = {}
    /\ (/\ \E i \in Items(n) : sent[i].v = "user"
        /\ cur.key = "input_mic" /\ cur.data.id = n /\ pc = "resume"
        /\ cur.data.ctype = "input_text")
         => Cardinality(TurnRequests("input_mic", n)) = 1

\* a user text was handled to the end: item, then its turn request
C9_Witness ==
  \E n \in InputIds :
    /\ pc = "wait"
    /\ \E i \in Items(n) : sent[i].v = "user"
    /\ TurnRequests("input_mic", n) # {}

\* C10: a system text input is forwarded on the model channel and no
\* response.create is ever sent for it.
C10_SystemTextNoTurnRequest ==
  /\ \A i \in DOMAIN sent :
       (sent[i].t = "conversation.item.create" /\ sent[i].v = "system")
         => TurnRequests("input_mic", sent[i].id) = {}
  /\ (/\ cur.key = "input_mic" /\ cur.data.role = "system"
      /\ cur.data.ctype = "input_text" /\ pc \in {"text_sleep", "resume"})
       => Items(cur.data.id) # {}

\* a system text was handled to the end
C10_Witness ==
  /\ pc = "wait"
  /\ \E i \in DOMAIN sent :
       sent[i].t = "conversation.item.create" /\ sent[i].v = "system"

\* C11: for a call output flagged return_direct the output string reaches the
\* client unchanged and at most once, only after the call output and then one
\* response.create went out on the model channel, and exactly once as soon as
\* the handling of the event is past the direct delivery; nothing is sent
\* directly for an output that is not flagged.
C11_DirectOutputForwarded ==
  \A c \in Calls :
    /\ Len(direct[c]) <= 1
    /\ \A k \in DOMAIN direct[c] :
         /\ direct[c][k] = Serialize(result[c])
         /\ result[c] = "direct"
         /\ Cardinality(TurnRequests("tool_outputs", c)) = 1
         /\ \A j \in TurnRequests("tool_outputs", c) :
              \E i \in Outputs(c) : i < j
    /\ (/\ result[c] = "direct"
        /\ TurnRequests("tool_outputs", c) # {}
        /\ ~(/\ cur.key = "tool_outputs" /\ cur.data.id = c
             /\ pc \in {"out_direct", "ended"}))
         => Len(direct[c]) = 1

\* a flagged output was handled to the end and the loop is waiting again
C11_Witness ==
  \E c \in Calls :
    /\ pc = "wait"
    /\ result[c] = "direct"
    /\ Len(direct[c]) = 1
    /\ Outputs(c) # {}

\* C12: once the merge has seen the model's inbound stream end, or a send has
\* failed, aconnect has terminated; it is not back in its wait on the other
\* sources.
C12_ChannelDropEndsSession ==
  /\ slot["output_speaker"] = "gone" => pc = "ended"
  /\ endCause = "send_failed" => pc = "ended"

\* C13: whenever aconnect has left the body of `async with connect(...)`, by an
\* exception or by cancellation, the websocket is closed.
C13_ChannelClosedOnExit ==
  pc = "ended" => (chan = "closed" /\ endCause # "none")

\* the session task was cancelled while the model stream was still being read
C13_Witness ==
  /\ pc = "ended"
  /\ endCause = "cancelled"
  /\ slot["output_speaker"] = "pending"
  /\ Len(sent) > 1

\* the kinds the dispatch of model events has a branch for
KnownKinds ==
  EVENTS_TO_IGNORE \cup
  { "response.audio.delta", "response.audio_buffer.speech_started", "error",
    "response.function_call_arguments.done", "response.audio_transcript.done",
    "conversation.item.input_audio_transcription.completed",
    "response.text.done", "input_audio_buffer.speech_started" }

\* a step in which the loop takes the model event at the head of the merge
TakesModelEvent ==
  /\ Ready("output_speaker")
  /\ item["output_speaker"].kind = "event"
  /\ arrived' = Tail(arrived)

\* C14: the step that takes a model event whose kind is in the ignore list or
\* is not known to the dispatch sends nothing on the model channel and nothing
\* to the client, and leaves the loop waiting for the next event with the
\* session not ended.
C14_IgnoredEventNoEffect ==
  [][(/\ TakesModelEvent
      /\ \/ item["output_speaker"].ctype \in EVENTS_TO_IGNORE
         \/ item["output_speaker"].ctype \notin KnownKinds)
       => /\ sent' = sent
          /\ chunks' = chunks
          /\ pc' = "wait"
          /\ endCause' = endCause
          /\ chan' = chan
          /\ slot'["output_speaker"] = "pending"]_vars

\* the only model event of the session was taken and left no trace
C14_Witness ==
  /\ nOther = 1 /\ nCalls = 0
  /\ pc = "wait"
  /\ slot["output_speaker"] = "pending"
  /\ fwd = <<>>
  /\ Len(sent) = 1

\* C16: the step that takes an audio-delta or speech-started event adds exactly
\* one client chunk, the JSON of the whole event; the step that takes a
\* completed-text event adds exactly one client chunk, the event's text; neither
\* sends anything on the model channel or any other chunk.
C16_ForwardedEvents ==
  [][TakesModelEvent =>
       LET d == item["output_speaker"] IN
       /\ d.ctype \in {"response.audio.delta",
                       "response.audio_buffer.speech_started"}
            => /\ fwd' = Append(fwd, [enc |-> "json_ascii", part |-> "whole",
                                      of |-> d])
               /\ sent' = sent
               /\ UNCHANGED <<notified, hinted, direct, directErr>>
       /\ d.ctype = "response.text.done"
            => /\ fwd' = Append(fwd, [enc |-> "str", part |-> "text", of |-> d])
               /\ sent' = sent
               /\ UNCHANGED <<notified, hinted, direct, directErr>>]_vars

\* a completed text was forwarded and the loop is waiting again
C16_Witness ==
  /\ pc = "wait"
  /\ Len(fwd) = 1
  /\ fwd[1].part = "text"
  /\ fwd[1].of.ctype = "response.text.done"

\* C15: the step that takes an input whose payload is plain text sends that
\* text as a user-role conversation item and goes on as for a user text input
\* (into the debounce sleep), or ends on the failure of that send.
C15_PlainTextWrapped ==
  [][(/\ Ready("input_mic")
      /\ arrived' = Tail(arrived)
      /\ item["input_mic"].kind = "text")
       => \/ /\ sent' = Append(sent, Msg("conversation.item.create", "input_mic",
                                         item["input_mic"].id, "user"))
             /\ pc' = "text_sleep"
          \/ /\ sent' = sent
             /\ endCause' = "send_failed"]_vars

\* the items of source k in the merged output, in the order they were yielded
FromSource(k) == SelectSeq(merged, LAMBDA e : e[1] = k)

\* C17: the merged output holds, for each source, the items that source has
\* produced, each once and in the source's order, short of at most the one
\* item the merge has not yielded yet; when the merge has ended because every
\* source is exhausted nothing is missing and the length of the output is the
\* sum of the lengths of the sources.
C17_MergeIsOrderedUnion ==
  /\ \A k \in Keys :
       /\ FromSource(k) = [i \in 1..Len(FromSource(k)) |-> <<k, i>>]
       /\ Len(FromSource(k)) <= produced[k]
       /\ produced[k] <= Len(FromSource(k)) + 1
  /\ (pc = "ended" /\ endCause = "exhausted")
       => /\ \A k \in Keys : Len(FromSource(k)) = produced[k]
          /\ Len(merged) = produced["input_mic"] + produced["output_speaker"]
                             + produced["tool_outputs"]

\* three sources of different lengths were merged to the end, interleaved
C17_Witness ==
  /\ pc = "ended" /\ endCause = "exhausted"
  /\ produced["input_mic"] = 2
  /\ produced["output_speaker"] = 1
  /\ produced["tool_outputs"] = 2
  /\ merged[1][1] = "input_mic" /\ merged[2][1] = "tool_outputs"
  /\ merged[3][1] = "input_mic"

\* a step in which the merge handles the source at its head, found in state st
MergeHandles(st) ==
  /\ pc = "wait"
  /\ arrived # <<>>
  /\ slot[Head(arrived)] = st
  /\ arrived' = Tail(arrived)

\* C18: the step in which the merge finds a source exhausted drops that source
\* only: the loop keeps waiting, the requests of the other sources are
\* untouched and the session has not ended.  The end of the client input
\* reaches the merge as an exhausted source, never as a failure, and no
\* session ends because its sources ran out.
C18_ExhaustedSourceDropped ==
  [][/\ MergeHandles("exhausted")
          => /\ pc' = "wait"
             /\ endCause' = endCause
             /\ slot' = [slot EXCEPT ![Head(arrived)] = "gone"]
     /\ slot'["input_mic"] # "raised"
     /\ endCause' \notin {"exhausted", "input_broke"}]_vars

\* a tool output is being handled after the client input was dropped
C18_Witness ==
  /\ slot["input_mic"] = "gone"
  /\ pc = "out_resp"
  /\ slot["output_speaker"] = "pending"

\* C19: the step in which the merge finds that a source raised ends the
\* session with the error of that source and cancels the pending next-item
\* request of every other source; once the session has ended no further item
\* is delivered to the loop.
C19_RaisingSourceFailsMerge ==
  [][/\ MergeHandles("raised")
          => /\ pc' = "ended"
             /\ endCause' = (IF Head(arrived) = "output_speaker"
                             THEN "channel_broke" ELSE "tool_raised")
             /\ \A k \in Keys \ {Head(arrived)} :
                  slot[k] = "pending" => slot'[k] = "cancelled"
             /\ sent' = sent
     /\ pc = "ended"
          => /\ pc' = "ended"
             /\ cur' = cur
             /\ sent' = sent
             /\ nTurnEv' = nTurnEv]_vars

\* a tool raised: the merge failed and the two other requests were cancelled
C19_Witness ==
  /\ pc = "ended"
  /\ endCause = "tool_raised"
  /\ slot["input_mic"] = "cancelled"
  /\ slot["output_speaker"] = "cancelled"

\* C20: with the asset loaded, for every executed call: the sending of the
\* hint starts only when the delay elapses with the tool still running, a
\* send that was started has delivered the asset once by the time the timer
\* is over, and the asset is never sent twice.
C20_HintExactlyOnceIfSlow ==
  [][\A c \in Calls :
       hintAsset =>
         /\ (timer[c] = "sleeping" /\ timer'[c] = "sending")
              => task[c] = "invoking"
         /\ (timer[c] \in {"sending", "cancel_send"} /\ timer'[c] = "done")
              => hinted'[c] = 1
         /\ timer'[c] \in {"none", "sleeping", "cancel_sleep"}
              => hinted'[c] = 0
         /\ hinted'[c] <= 1]_vars

\* C21: a call that passed validation has had exactly one processing-started
\* notification sent to the client by the time its tool is invoked, hence
\* before its output event, and none before its run_tool task runs; the task
\* sends it as soon as it runs, whatever the model stream does.
C21_OneNotificationBeforeInvoke ==
  \A c \in Calls :
    /\ notified[c] <= 1
    /\ task[c] \in {"invoking", "joining", "returned", "raised"}
         => notified[c] = 1
    /\ task[c] \in {"none", "created"} => notified[c] = 0
    /\ (outs[c] > 0 /\ task[c] # "none") => notified[c] = 1
    /\ task[c] = "created" => ENABLED RunToolStart(c)

\* a tool is being invoked, its notification is out, and the model stream has
\* ended in the meantime
C21_Witness ==
  \E c \in Calls :
    /\ task[c] = "invoking"
    /\ notified[c] = 1
    /\ slot["output_speaker"] = "gone"
    /\ outs[c] = 0


\* ---- exact cache
\* the value of the most recent set of key k in the log, Absent if none
RECURSIVE LastSet(_, _)
LastSet(log, k) ==
  IF log = <<>> THEN Absent
  ELSE IF log[Len(log)][2] = k THEN log[Len(log)][3]
  ELSE LastSet(SubSeq(log, 1, Len(log) - 1), k)

\* C22: after any interleaving of sets by any sessions, get(k) returns the
\* value of the most recent set of k and absent for a key never set; no entry
\* is ever evicted (a key once set stays present).
C22_LastWriteWins ==
  /\ \A k \in CacheKeys : CacheGet(db, k) = LastSet(setLog, k)
  /\ \A i \in 1..Len(setLog) : CacheGet(db, setLog[i][2]) \in CacheValues
C22_Witness ==
  /\ Len(setLog) = 2
  /\ setLog[1][1] # setLog[2][1]
  /\ setLog[1][2] = setLog[2][2]
  /\ setLog[1][3] # setLog[2][3]
  /\ CacheGet(db, setLog[2][2]) = setLog[2][3]
  /\ \E k \in CacheKeys : CacheGet(db, k) = Absent

\* C27: a tool call whose exact-cache get or set raised is treated as a cache
\* miss: it has done the live lookup and returns its result, not an error
\* response.
C27_CacheFailureIsMiss ==
  \A s \in Sessions :
    (tpc[s] = "returned" /\ fault[s] # "none") =>
      (lookups[s] = 1 /\ resp[s].kind = "result")

\* C29: an invocation issues at most one get and at most one set of the exact
\* cache; one that hit returns the response made from the cached value with no
\* live lookup and no set; one that missed did the live lookup once, and the
\* set it issues is under the key it read.
C29_OneReadOneWrite ==
  \A s \in Sessions :
    /\ reads[s] <= 1 /\ writes[s] <= 1 /\ lookups[s] <= 1
    /\ (tpc[s] = "returned" /\ got[s] # Absent) =>
         /\ resp[s] = generate_response(got[s])
         /\ lookups[s] = 0 /\ writes[s] = 0
    /\ (reads[s] = 1 /\ fault[s] # "get" /\ got[s] = Absent) => lookups[s] = 1
    /\ writes[s] = 1 =>
         /\ wkey[s] = tkey[s] /\ got[s] = Absent /\ lookups[s] = 1
         /\ fault[s] = "none" => /\ resp[s].kind = "result"
                                 /\ <<s, tkey[s], resp[s].of>> \in
                                      {setLog[i] : i \in 1..Len(setLog)}
    /\ (tpc[s] = "returned" /\ resp[s].kind = "result" /\ got[s] = Absent) =>
         writes[s] = 1
C29_Witness ==
  \E s, t \in Sessions :
    /\ s # t
    /\ tpc[s] = "returned" /\ got[s] # Absent /\ lookups[s] = 0
    /\ tpc[t] = "returned" /\ writes[t] = 1 /\ tkey[t] = tkey[s]
    /\ resp[s] = resp[t]

\* ---- normalize_text
\* the letter a character stands for, whatever its case, width or
\* compatibility form
Letter(ch) == IF isalnum(ch) THEN "c" ELSE ch
\* a text with case, width, compatibility form, punctuation and the amount
\* and sort of whitespace taken out of it
Skeleton(t) ==
  LET letters == [i \in 1..Len(t) |->
                    IF isspace(t[i]) THEN " " ELSE Letter(t[i])]
  IN JoinSplit(SelectSeq(letters, LAMBDA ch : ch # "!"))
DifferOnlyInForm(a, b) == Skeleton(a) = Skeleton(b)

\* C26: two texts that differ only by letter case, Unicode width or
\* compatibility form, punctuation, or whitespace are mapped by
\* normalize_text to the same string.
C26_VariantsNormalizeEqual ==
  (normIn # <<>> /\ DifferOnlyInForm(normIn[1], normIn[2])) =>
    normOut[1] = normOut[2]

\* ---- semantic cache
\* the similarities of the stored records to a query, the highest of them and
\* the positions of the records that have it
SimOf(q, i) == 100 - EmbDist(normalize_text(q), coll[i].doc)
BestSim(q) ==
  CHOOSE b \in {SimOf(q, i) : i \in 1..Len(coll)} :
    \A i \in 1..Len(coll) : SimOf(q, i) <= b
BestEntries(q) == {i \in 1..Len(coll) : SimOf(q, i) = BestSim(q)}
ScoreSearchDone == srch.op = "search_with_score"

\* C23 as stated: search_with_score hits only when the highest similarity of
\* the stored records is at least tau, and then returns the value stored for
\* a record that has it; else it returns no value; either way the score it
\* returns is that highest similarity.
C23_ReturnsBestScoreFound ==
  ScoreSearchDone =>
    /\ srch.hit =>
         /\ coll # <<>> /\ BestSim(srch.query) >= Tau
         /\ srch.value # Absent
         /\ \E i \in BestEntries(srch.query) : srch.value = files[coll[i].id]
    /\ ~srch.hit => srch.value = Absent
    /\ coll # <<>> => srch.score = BestSim(srch.query)

\* C23 (amended): as above, but the score returned is the highest similarity
\* only when that is positive, and 0 otherwise; and a record at or above tau
\* whose value file is absent gives no hit.
C23_HitOnlyAtThreshold ==
  ScoreSearchDone =>
    /\ srch.hit =>
         /\ coll # <<>> /\ BestSim(srch.query) >= Tau
         /\ srch.value # Absent
         /\ \E i \in BestEntries(srch.query) : srch.value = files[coll[i].id]
    /\ ~srch.hit =>
         /\ srch.value = Absent
         /\ \/ coll = <<>>
            \/ BestSim(srch.query) < Tau
            \/ \E i \in BestEntries(srch.query) : files[coll[i].id] = Absent
    /\ srch.score = IF coll = <<>> \/ BestSim(srch.query) <= 0 THEN 0
                    ELSE BestSim(srch.query)
C23_Witness ==
  /\ ScoreSearchDone /\ srch.hit /\ srch.score = 95
  /\ Len(coll) = 2
  /\ \E i \in 1..2 : SimOf(srch.query, i) < Tau
  /\ \E i \in 1..2 : SimOf(srch.query, i) = 95 /\ srch.value = files[coll[i].id]

\* C24: once add(text, meta, value) has returned and no add is under way,
\* search_with_score with the identical text returns that value with
\* hit = true.
C24_AddThenSearchHits ==
  ( /\ ScoreSearchDone /\ added # NoAdd
    /\ \A s \in Sessions : adding[s] = NoAdd
    /\ srch.query = added.query ) =>
      (srch.hit /\ srch.value = added.value)

\* the collection with every stored ttl replaced
WithTTL(store, t) == [i \in 1..Len(store) |-> [store[i] EXCEPT !.ttl = t]]

C28_EntriesImmutable ==
  [][ /\ \A d \in DocIds : files[d] # Absent => files'[d] = files[d]
      /\ \A s \in Sessions :
           ((\A t \in Sessions : adding[t] = NoAdd) /\ adding'[s] # NoAdd) =>
             /\ Len(coll') = Len(coll) + 1
             /\ adding'[s].id \notin DocIdsOf(coll) ]_vars

\* ---- server
\* C30: when the handler has returned after its tasks were created, the task
\* that was pending when asyncio.wait returned has been cancelled and has
\* ended, the session has ended with the model channel closed, and the client
\* is out of connected_clients; the client is out of connected_clients after
\* every exit of the handler, error exits included.
C30_HandlerReleasesAll ==
  hpc = "returned" =>
    /\ ~clients
    /\ recv # "none" =>
         /\ pc = "ended" /\ chan = "closed"
         /\ recv \in {"done", "cancelled"}
         /\ botCancel => (endCause = "cancelled" /\ recv = "done")
         /\ recv = "cancelled" => (~botCancel /\ endCause # "cancelled")
C30_Witness ==
  /\ hpc = "returned" /\ hexit = "normal"
  /\ recv = "done" /\ botCancel /\ endCause = "cancelled"
  /\ nIn = 1 /\ chan = "closed" /\ ~clients

\* ---- session, continued
\* C31: the session configuration message is the first message on the model
\* channel: a session that got past its start has sent it, it is at the head
\* of the channel log, and every input, call-output and turn-request message
\* comes after it; it is sent once.
C31_ConfigurationFirst ==
  /\ sent # <<>> => sent[1].t = "session.update"
  /\ \A i \in DOMAIN sent : i > 1 => sent[i].t # "session.update"
  /\ (pc # "init" /\ endCause # "send_failed") => sent # <<>>
C31_Witness ==
  /\ Len(sent) >= 3
  /\ sent[1].t = "session.update"
  /\ \E i, j \in DOMAIN sent :
       /\ 1 < i /\ i < j
       /\ sent[i].t = "conversation.item.create"
       /\ sent[j].t = "response.create"

\* C32: every message on the model channel is sent by the orchestrator loop,
\* one merged event at a time: a message is appended one at a time; between
\* the first send of a text input or a tool output and the end of its
\* handling the loop keeps the same event, and the only message that can be
\* appended is that event's response.create, directly after the event's own
\* conversation item or call output; a response.create is sent at no other
\* point. Tool tasks running meanwhile send nothing on the channel.
MidEvent == pc \in {"text_sleep", "out_resp"}

FirstSendOf(ev) ==
  IF ev.key = "tool_outputs"
  THEN Msg("function_call_output", "tool_outputs", ev.data.id, ev.data.kind)
  ELSE Msg("conversation.item.create", ev.key, ev.data.id, ev.data.role)

C32_OneEventAtATime ==
  [][/\ MidEvent => (cur' = cur /\ sent # <<>>
                       /\ sent[Len(sent)] = FirstSendOf(cur))
     /\ sent' # sent =>
          /\ Len(sent') = Len(sent) + 1
          /\ SubSeq(sent', 1, Len(sent)) = sent
          /\ (sent'[Len(sent')].t = "response.create") <=> MidEvent
          /\ MidEvent => sent'[Len(sent')] =
                           Msg("response.create", cur.key, cur.data.id, "-")]_vars

\* a call output and its response.create are adjacent on the channel, sent
\* while another tool task was running, and a user text item and its
\* response.create are adjacent too
C32_Witness ==
  /\ \E c \in Calls : Running(c)
  /\ \E i \in DOMAIN sent :
       /\ i + 1 = Len(sent)
       /\ sent[i].t = "function_call_output"
       /\ sent[i + 1] = Msg("response.create", "tool_outputs", sent[i].id, "-")
  /\ \E i \in DOMAIN sent :
       /\ i + 1 \in DOMAIN sent
       /\ sent[i].t = "conversation.item.create" /\ sent[i].v = "user"
       /\ sent[i + 1] = Msg("response.create", "input_mic", sent[i].id, "-")

\* C33: the trigger slot is always re-armed. A filled slot is eventually
\* emptied by output_iterator while the session consumes it; the step that
\* empties it is the step that takes the call, before the call has a
\* run_tool task or an error output; a taken call never sits in the slot
\* again, so the slot is free for a later call while the taken one runs or
\* has failed validation.
C33_TriggerRearmed ==
  /\ (trigger # 0) ~> (trigger = 0 \/ pc = "ended")
  /\ [][(trigger # trigger' /\ trigger # 0) =>
          /\ trigger' = 0
          /\ trigger \notin taken /\ taken' = taken \cup {trigger}
          /\ task[trigger] = "none" /\ outs[trigger] = 0]_vars
  /\ [](\A c \in taken : trigger # c)

\* a later call was accepted while the call taken before it was running, or
\* while the error output of the call taken before it was the only trace of it
C33_Witness ==
  /\ trigger # 0
  /\ \E c \in taken : \/ Running(c)
                       \/ (~ValidCall(c) /\ outs[c] = 1)

\* C34: the wait-hint timer is cancelled on the success path of run_tool
\* only. A cancel reaches the timer in the step in which tool.ainvoke returns
\* and in no other; a call whose invocation raised keeps its timer as it was,
\* never cancelled, and if the asset is loaded the timer ends only by sending
\* the hint, which it does after the failure when the delay had not elapsed.
TimerCancelled(t) == t \in {"cancel_sleep", "cancel_send"}

NoDirectOutput(c) == ~ValidCall(c) \/ result[c] = "unserializable"

C35_DirectOnlyIfFlagged ==
  /\ [](\A c \in Calls :
          /\ direct[c] # <<>> =>
               /\ ValidCall(c) /\ result[c] = "direct"
               /\ Serialize(result[c]).enc \in {"json_ascii", "json_utf8"}
               /\ Outputs(c) # {}
          /\ (c \in taken /\ NoDirectOutput(c)) =>
               /\ direct[c] = <<>> /\ c \notin directErr
               /\ (/\ outs[c] = 1 /\ pc \in {"wait", "resume"}
                   /\ slot["tool_outputs"] \notin {"ready", "raised"})
                    => (Outputs(c) # {} /\ TurnRequests("tool_outputs", c) # {})
          /\ c \in directErr => direct[c] # <<>>)
  /\ [][(pc \in {"out_resp", "out_direct"} /\ pc' = "ended") =>
          \/ endCause' = "cancelled"
          \/ pc = "out_resp" /\ endCause' = "send_failed"]_vars

\* the direct delivery of one call raised inside send_output_chunk and the
\* loop went on: it has since handled the error output of an invalid call,
\* which reached the model channel only
C35_Witness ==
  \E c, d \in Calls :
    /\ c \in directErr
    /\ pc = "wait"
    /\ ~ValidCall(d) /\ outs[d] = 1
    /\ Outputs(d) # {} /\ TurnRequests("tool_outputs", d) # {}
    /\ direct[d] = <<>>

\* C36: send_output_chunk never raises to its caller. No caller is ever ended
\* by a call; every call returns, having sent the chunk, dropped it, sent
\* nothing for a blank text, or logged a send failure; a call made while the
\* client socket is not connected drops the chunk without trying to send; a
\* caller whose send failed goes on to its next call.
C36_SendNeverRaises ==
  /\ [](\A c \in Callers :
          /\ cpc[c] \in {"idle", "sending"}
          /\ cdone[c] = Cardinality({i \in DOMAIN outcomes : outcomes[i].by = c}))
  /\ [](\A i \in DOMAIN outcomes :
          /\ outcomes[i].res \in
               {"dropped", "nothing", "error_logged", Payload(outcomes[i].chunk)}
          /\ outcomes[i].res = "nothing" => outcomes[i].chunk = "blank"
          /\ outcomes[i].chunk = "blank"
               => outcomes[i].res \in {"dropped", "nothing"})
  /\ [][\A c \in Callers :
          /\ (cpc[c] = "idle" /\ carg'[c] # carg[c] /\ sock # "CONNECTED")
               => /\ cpc'[c] = "idle"
                  /\ outcomes' = Append(outcomes,
                        [by |-> c, chunk |-> carg'[c], res |-> "dropped"])
          /\ cpc[c] = "sending"
               => (cpc'[c] \in {"idle", "sending"} /\ cdone'[c] >= cdone[c])]_vars

\* a send of the loop failed and was logged, and the loop has made its next
\* call since; a chunk of the tool task was dropped because the client was gone
C36_Witness ==
  /\ \E i, j \in DOMAIN outcomes :
       /\ i < j
       /\ outcomes[i].by = "loop" /\ outcomes[i].res = "error_logged"
       /\ outcomes[j].by = "loop"
  /\ \E i \in DOMAIN outcomes :
       outcomes[i].by = "tool" /\ outcomes[i].res = "dropped"

\* ---- the miss branch of the search tools
\* everything CacheSpec keeps of the invocation of session s
Invocation(s) ==
  <<tpc[s], tkey[s], resp[s], reads[s], writes[s], wkey[s], lookups[s],
    got[s], fault[s]>>

\* a set of key k has been carried out
Written(k) == \E i \in DOMAIN setLog : setLog[i][2] = k

\* the step in which the live lookup of s is over: it raised and the cache is
\* as it was, or it returned and the checked videos (the empty list after a
\* failed extraction) are stored under the key that was read
MissStep(s) ==
  (tpc[s] = "live" /\ tpc'[s] = "returned") =>
    IF writes'[s] = 0
    THEN db' = db /\ setLog' = setLog /\ resp'[s] = handle_error
    ELSE /\ Len(setLog') = Len(setLog) + 1
         /\ setLog'[Len(setLog')][1] = s
         /\ setLog'[Len(setLog')][2] = tkey[s]
         /\ db'[tkey[s]] = setLog'[Len(setLog')][3]
         /\ db'[tkey[s]] \in CacheValues

\* the step in which s begins an invocation on a key that has been written:
\* a hit, the response is made from the stored value with no live lookup
LaterCallStep(s) ==
  (/\ nTool' = nTool + 1 /\ Invocation(s)' # Invocation(s)
   /\ Written(tkey'[s])) =>
    /\ tpc'[s] = "returned" /\ lookups'[s] = 0
    /\ resp'[s] = generate_response(db[tkey'[s]])

\* C37: on a miss the key is written exactly when the live search returns,
\* the empty list after a failed extraction included; every later call on a
\* written key is a hit with no live lookup; a live search that raises leaves
\* the cache unchanged. Miss, write and hit are cache operations that were
\* carried out: a set that raises is issued and stores nothing, and a call
\* whose get raises is no hit and does no live lookup either.
C37_MissWritesIffLiveReturns ==
  [][\A s \in Sessions :
       /\ fault'[s] = "none" => (MissStep(s) /\ LaterCallStep(s))
       /\ (tpc[s] = "live" /\ tpc'[s] = "returned")
            => (writes'[s] = 1 <=> resp'[s] # handle_error \/ fault'[s] = "set")
       /\ (tpc[s] = "live" /\ fault'[s] = "set")
            => (db' = db /\ setLog' = setLog /\ writes'[s] = 1)
       /\ (nTool' = nTool + 1 /\ Invocation(s)' # Invocation(s))
            => lookups'[s] = (IF fault'[s] = "none" /\ ~Written(tkey'[s])
                              THEN 1 ELSE 0)]_vars

\* an extraction failed and the empty list was stored; a later call of the
\* other session on that key hit it without a live lookup, while the live
\* search on the other key raised and left that key absent
C37_Witness ==
  \E s, t \in Sessions : \E i \in DOMAIN setLog :
    /\ s # t
    /\ setLog[i] = <<s, tkey[t], EmptyList>>
    /\ tpc[t] = "returned" /\ got[t] = EmptyList /\ lookups[t] = 0
    /\ resp[t] = generate_response(EmptyList)
    /\ tpc[s] = "returned" /\ lookups[s] = 1 /\ writes[s] = 0
    /\ resp[s] = handle_error /\ db[tkey[s]] = Absent

\* ---- WindowedChatHistory
\* the last n elements of a sequence, all of it if it has no more than n
LastN(seq, n) ==
  IF Len(seq) <= n THEN seq ELSE SubSeq(seq, Len(seq) - n + 1, Len(seq))

\* C38: after any sequence of add_message and clear, for every window size,
\* the history holds at most window_size messages, and they are the most
\* recently added ones (since the last clear) in the order they were added.
C38_HoldsLastWindow ==
  window_size # NoWindow =>
    /\ Len(messages) <= window_size
    /\ messages = LastN(appended, window_size)

=============================================================================
